---- MODULE Spec2Model ----
(***************************************************************************)
(* A model of the iMessage analysis page (src/app/page.tsx): the payload   *)
(* decoder decodeAttributedBody and the analysis run                       *)
(* processAllVisualizations.                                               *)
(*                                                                         *)
(* Representation.                                                         *)
(*  - A JavaScript string is the sequence of its UTF-16 code units; a byte *)
(*    buffer is the sequence of its bytes (0..255).  null, undefined and   *)
(*    '' are all falsy wherever the code tests a text, so "no text" is the *)
(*    empty sequence.                                                      *)
(*  - A Date is the number of minutes since 2001-01-01T00:00:00Z (the      *)
(*    epoch of the archive; it was a Monday).  The code holds nanoseconds  *)
(*    in the row and milliseconds in the Date; every timestamp of the      *)
(*    model is a whole minute, so hours are minutes/60.  The local time    *)
(*    zone of the browser is taken to be UTC.                              *)
(*  - bplist.parseBuffer is a library outside the repository: a payload    *)
(*    carries, beside its bytes, what the library answers on them (it      *)
(*    throws, or it returns a list of parsed values).                      *)
(***************************************************************************)
EXTENDS Integers, Sequences, FiniteSets, TLC

VARIABLES
  rows,                       \* messagesResult[0].values of the run (<<>>: no result set)
  filterReactions,            \* the filterReactions state the run reads
  now,                        \* the clock of the run: what new Date() answers
  pc,                         \* position of processAllVisualizations
  idx,                        \* index of the row the message loop is at
  processedMessages,          \* the local processedMessages
  reactionsFiltered,          \* the local reactionsFiltered
  messagesWithAttributedBody, \* the local messagesWithAttributedBody
  decodedCount,               \* the local decodedCount
  buf,                        \* decodeAttributedBody: the payload being decoded
  dpc,                        \* decodeAttributedBody: the strategy it is at
  dres,                       \* decodeAttributedBody: the text it returned
  dthrown,                    \* decodeAttributedBody: an error reached the caller
  reactionCount,              \* React state reactionCount
  attributedBodyCount,        \* React state attributedBodyCount
  heatmapData,                \* React state heatmapData
  responseTimeData,           \* React state responseTimeData
  replyLadderData,            \* React state replyLadderData
  sortedMessages,             \* the local sortedMessages
  monthlyYouToThemTimes,      \* the local monthlyYouToThemTimes
  monthlyThemToYouTimes,      \* the local monthlyThemToYouTimes
  conversations,              \* the local conversations
  wordsPerWeekData,           \* React state wordsPerWeekData
  wordsPerWeekMessages,       \* React state wordsPerWeekMessages
  conversationRatioData,      \* React state conversationRatioData
  sentimentData,              \* React state sentimentData
  allLongestTexts,            \* the local allLongestTexts
  emojiCountsYou,             \* the local emojiCountsYou
  emojiCountsThem,            \* the local emojiCountsThem
  wrappedStats,               \* React state wrappedStats
  screen,                     \* React state screen
  db,                         \* React state db
  selectedContact,            \* React state selectedContact (its rowid, 0 for null)
  processing,                 \* React state processing
  error,                      \* React state error
  isSampleData,               \* React state isSampleData
  inflight,                   \* the calls of processAllVisualizations that wait at an await
  graph,                      \* string harvest: the objects of the parsed container
  fn,                         \* string harvest: searchObject or findAllStrings
  callStack,                  \* string harvest: the calls of fn that have not returned
  harvested,                  \* string harvest: the strings pushed so far
  visits,                     \* string harvest: how often fn was called on each object
  hpc                         \* string harvest: idle, run, returned or overflow

vars == <<rows, filterReactions, now, pc, idx, processedMessages, reactionsFiltered,
          messagesWithAttributedBody, decodedCount, buf, dpc, dres, dthrown,
          reactionCount, attributedBodyCount, heatmapData, responseTimeData,
          replyLadderData, sortedMessages, monthlyYouToThemTimes,
          monthlyThemToYouTimes, conversations, wordsPerWeekData,
          wordsPerWeekMessages, conversationRatioData, sentimentData,
          allLongestTexts, emojiCountsYou, emojiCountsThem, wrappedStats,
          screen, db, selectedContact, processing, error, isSampleData, inflight,
          graph, fn, callStack, harvested, visits, hpc>>

\* the state of the page around a call of processAllVisualizations
page == <<screen, db, selectedContact, processing, error, isSampleData, inflight>>
\* db and error are null; contactId null stands for all chats
NoDb == [isNull |-> TRUE, messages |-> <<>>, unreadable |-> {}]
NoError == "null"
ProcessingError == "Error processing messages"
NoContactsError == "No contacts found in database"
AllChats == 0

(***************************************************************************)
(* Strings                                                                 *)
(***************************************************************************)

NoText == <<>>

Min(a, b) == IF a < b THEN a ELSE b
Max(a, b) == IF a > b THEN a ELSE b

IsUpper(c) == c >= 65 /\ c <= 90
IsLower(c) == c >= 97 /\ c <= 122
IsDigit(c) == c >= 48 /\ c <= 57
IsLetter(c) == IsUpper(c) \/ IsLower(c)
IsAlnum(c) == IsLetter(c) \/ IsDigit(c)
\* \w of a JavaScript regular expression
IsWordChar(c) == IsAlnum(c) \/ c = 95
\* \s of a JavaScript regular expression, which is also what trim() strips
IsWhite(c) ==
  \/ c \in {9, 10, 11, 12, 13, 32, 160, 5760, 8232, 8233, 8239, 8287, 12288, 65279}
  \/ (c >= 8192 /\ c <= 8202)
\* what . of a JavaScript regular expression does not match
IsLineTerminator(c) == c \in {10, 13, 8232, 8233}

\* String.prototype.trim
Trim(s) ==
  LET keep == {i \in 1..Len(s) : ~IsWhite(s[i])}
  IN IF keep = {} THEN <<>>
     ELSE SubSeq(s, CHOOSE i \in keep : \A j \in keep : i <= j,
                    CHOOSE i \in keep : \A j \in keep : i >= j)

StartsWith(s, p) == Len(s) >= Len(p) /\ SubSeq(s, 1, Len(p)) = p
EndsWith(s, p) == Len(s) >= Len(p) /\ SubSeq(s, Len(s) - Len(p) + 1, Len(s)) = p
Includes(s, p) == \E i \in 1..(Len(s) - Len(p) + 1) : SubSeq(s, i, i + Len(p) - 1) = p
HasChar(s, c) == \E i \in 1..Len(s) : s[i] = c

\* Array.from(new Set(a)): the first occurrence of every element, in order
RECURSIVE UniqueFrom(_, _, _)
UniqueFrom(s, i, out) ==
  IF i > Len(s) THEN out
  ELSE UniqueFrom(s, i + 1,
         IF \E k \in 1..Len(out) : out[k] = s[i] THEN out ELSE Append(out, s[i]))
Unique(s) == UniqueFrom(s, 1, <<>>)

\* a.sort((a, b) => b.length - a.length): stable, longest first
RECURSIVE InsertByLength(_, _)
InsertByLength(sorted, x) ==
  IF sorted = <<>> THEN <<x>>
  ELSE IF Len(Head(sorted)) >= Len(x)
       THEN <<Head(sorted)>> \o InsertByLength(Tail(sorted), x)
       ELSE <<x>> \o sorted
RECURSIVE SortByLengthFrom(_, _, _)
SortByLengthFrom(s, i, out) ==
  IF i > Len(s) THEN out ELSE SortByLengthFrom(s, i + 1, InsertByLength(out, s[i]))
SortByLengthDesc(s) == SortByLengthFrom(s, 1, <<>>)
\* the state of a string harvest taken by itself
harvest == <<graph, fn, callStack, harvested, visits, hpc>>
\* no harvest is under way
NoHarvest ==
  /\ graph = <<>> /\ fn = "none" /\ callStack = <<>> /\ harvested = <<>>
  /\ visits = <<>> /\ hpc = "idle"

(***************************************************************************)
(* decodeAttributedBody: the raw-buffer strategies.  The loops of the code *)
(* that walk a whole buffer are written here without recursion on the      *)
(* buffer length: a run is named by where it starts and where it ends.     *)
(***************************************************************************)

IsPrintable(b) == b >= 32 /\ b <= 126

\* "bplist"
MagicHeader == <<98, 112, 108, 105, 115, 116>>

\* asciiHeader.startsWith('bplist'): toString('ascii') drops the high bit of
\* every byte, then the non-printable characters become '.'
AsciiHeaderChar(b) == IF IsPrintable(b % 128) THEN b % 128 ELSE 46
HasMagicHeader(bytes) ==
  /\ Len(bytes) >= Len(MagicHeader)
  /\ \A i \in 1..Len(MagicHeader) : AsciiHeaderChar(bytes[i]) = MagicHeader[i]

\* The scan of the buffer for runs of printable ASCII.  currentString grows
\* over printable bytes and is pushed, when it has 2 characters or more, at
\* the NUL or other non-printable byte that ends it, or at the end of the
\* buffer: strings is the list of the maximal printable runs of length >= 2.
RunStartsAt(bytes, i) ==
  IsPrintable(bytes[i]) /\ (i = 1 \/ ~IsPrintable(bytes[i - 1]))
RunEndFrom(bytes, i) ==
  CHOOSE q \in i..Len(bytes) :
    /\ q = Len(bytes) \/ ~IsPrintable(bytes[q + 1])
    /\ \A r \in i..q : IsPrintable(bytes[r])
RECURSIVE StringsBetween(_, _, _)
StringsBetween(bytes, lo, hi) ==
  IF lo > hi THEN <<>>
  ELSE IF lo = hi
       THEN IF RunStartsAt(bytes, lo) /\ RunEndFrom(bytes, lo) - lo + 1 >= 2
            THEN <<SubSeq(bytes, lo, RunEndFrom(bytes, lo))>> ELSE <<>>
       ELSE StringsBetween(bytes, lo, (lo + hi) \div 2)
            \o StringsBetween(bytes, (lo + hi) \div 2 + 1, hi)
ExtractStrings(bytes) == StringsBetween(bytes, 1, Len(bytes))

\* 'streamtyped', '__kIMMessagePartAttributeName'
MetadataPatterns ==
  << <<115, 116, 114, 101, 97, 109, 116, 121, 112, 101, 100>>,
     <<95, 95, 107, 73, 77, 77, 101, 115, 115, 97, 103, 101, 80, 97, 114, 116,
       65, 116, 116, 114, 105, 98, 117, 116, 101, 78, 97, 109, 101>> >>

\* the filter that keeps the strings that are not metadata
IsMeaningful(s) ==
  LET trimmed == Trim(s)
  IN /\ ~\E k \in 1..Len(MetadataPatterns) :
            trimmed = MetadataPatterns[k] \/ Includes(trimmed, MetadataPatterns[k])
     /\ ~( /\ \/ StartsWith(trimmed, <<78, 83>>)
              \/ StartsWith(trimmed, <<95, 95>>)
              \/ StartsWith(trimmed, <<67, 70>>)
           /\ Len(trimmed) < 10 )
     /\ Len(trimmed) >= 2

\* s1 may end the first half of a split message and s2 begin its second half
LooksSplit(s1, s2) ==
  /\ Len(s1) > 0 /\ s1[Len(s1)] \in {39, 110, 116, 32}
  /\ \/ StartsWith(s2, <<116, 32>>)
     \/ StartsWith(s2, <<39>>)
     \/ (Len(s2) > 0 /\ IsLower(s2[1]))

\* what one pair (s1, s2) of meaningful strings adds to reconstructed
JoinPair(s1, s2) ==
  LET forward == Trim(s1 \o s2)
      backward == Trim(s2 \o s1)
  IN (IF LooksSplit(s1, s2) /\ Len(forward) > Max(Len(s1), Len(s2))
      THEN <<forward>> ELSE <<>>)
     \o
     (IF LooksSplit(s2, s1) /\ Len(backward) > Max(Len(s1), Len(s2))
      THEN <<backward>> ELSE <<>>)

RECURSIVE ReconstructFrom(_, _, _, _)
ReconstructFrom(meaningful, i, j, reconstructed) ==
  IF i > Len(meaningful) THEN reconstructed
  ELSE IF j > Len(meaningful)
       THEN ReconstructFrom(meaningful, i + 1, i + 2, reconstructed)
       ELSE ReconstructFrom(meaningful, i, j + 1,
              reconstructed \o JoinPair(meaningful[i], meaningful[j]))
Reconstruct(meaningful) == ReconstructFrom(meaningful, 1, 2, <<>>)

\* "Strategy 1" of the code: the text of the NUL/boundary-terminated ASCII
\* scan, NoText when it returns nothing
AsciiScan(bytes) ==
  LET strings == ExtractStrings(bytes)
      uniqueStrings == Unique(strings)
      meaningful == SelectSeq(uniqueStrings, IsMeaningful)
      allCandidates == meaningful \o Reconstruct(meaningful)
      withSpaces == SelectSeq(allCandidates, LAMBDA s : HasChar(s, 32))
      spaced == IF withSpaces = <<>> THEN <<>>
                ELSE Trim(SortByLengthDesc(withSpaces)[1])
      longest == IF allCandidates = <<>> THEN <<>>
                 ELSE Trim(SortByLengthDesc(allCandidates)[1])
  IN IF strings = <<>> \/ meaningful = <<>> THEN NoText
     ELSE IF withSpaces # <<>> /\ Len(spaced) >= 2 THEN spaced
     ELSE IF Len(longest) >= 2 THEN longest
     ELSE NoText

\* Buffer.toString('utf8', start, end) of the buffer package (utf8Slice): a
\* byte that starts no valid sequence becomes U+FFFD and one byte is
\* consumed; a code point above U+FFFF becomes a surrogate pair.
IsCont(b) == b >= 128 /\ b <= 191
SeqLen(b1) == IF b1 > 239 THEN 4 ELSE IF b1 > 223 THEN 3 ELSE IF b1 > 191 THEN 2 ELSE 1
CodePoint(bytes, i) ==
  LET b1 == bytes[i]
  IN CASE SeqLen(b1) = 1 -> b1
       [] SeqLen(b1) = 2 -> (b1 % 32) * 64 + (bytes[i + 1] % 64)
       [] SeqLen(b1) = 3 -> (b1 % 16) * 4096 + (bytes[i + 1] % 64) * 64
                            + (bytes[i + 2] % 64)
       [] SeqLen(b1) = 4 -> (b1 % 8) * 262144 + (bytes[i + 1] % 64) * 4096
                            + (bytes[i + 2] % 64) * 64 + (bytes[i + 3] % 64)
\* a valid sequence starts at byte i and ends at or before byte end
ValidAt(bytes, i, end) ==
  LET n == SeqLen(bytes[i])
      cp == CodePoint(bytes, i)
  IN /\ i + n - 1 <= end
     /\ \A k \in 1..(n - 1) : IsCont(bytes[i + k])
     /\ CASE n = 1 -> cp < 128
          [] n = 2 -> cp > 127
          [] n = 3 -> cp > 2047 /\ (cp < 55296 \/ cp > 57343)
          [] n = 4 -> cp > 65535 /\ cp < 1114112
\* byte i is read as part of a valid sequence that starts before it (a lead
\* byte is never part of another sequence, so the sequence is decided by
\* the three bytes before i)
ConsumedAt(bytes, i, first, end) ==
  /\ IsCont(bytes[i])
  /\ \E j \in Max(first, i - 3)..(i - 1) :
       bytes[j] > 191 /\ ValidAt(bytes, j, end) /\ j + SeqLen(bytes[j]) > i
UnitsAt(bytes, i, first, end) ==
  IF ConsumedAt(bytes, i, first, end) THEN <<>>
  ELSE IF ~ValidAt(bytes, i, end) THEN <<65533>>
  ELSE IF SeqLen(bytes[i]) < 4 THEN <<CodePoint(bytes, i)>>
  ELSE << 55296 + (((CodePoint(bytes, i) - 65536) \div 1024) % 1024),
          56320 + ((CodePoint(bytes, i) - 65536) % 1024) >>
RECURSIVE Utf8Between(_, _, _, _, _)
Utf8Between(bytes, lo, hi, first, end) ==
  IF lo > hi THEN <<>>
  ELSE IF lo = hi THEN UnitsAt(bytes, lo, first, end)
  ELSE Utf8Between(bytes, lo, (lo + hi) \div 2, first, end)
       \o Utf8Between(bytes, (lo + hi) \div 2 + 1, hi, first, end)
\* bytes first..end decoded
Utf8Slice(bytes, first, end) == Utf8Between(bytes, first, end, first, end)

\* [a-zA-Z0-9\s.,!?;:'"()-]
IsTextChar(c) ==
  IsAlnum(c) \/ IsWhite(c) \/ c \in {46, 44, 33, 63, 59, 58, 39, 34, 40, 41, 45}

\* testText.match(/[a-zA-Z0-9][a-zA-Z0-9\s.,!?;:'"()-]{8,}/g): the leftmost
\* matches, each as long as it can be, none overlapping another.  Every
\* character of the first class is in the second, so a match runs to the
\* end of the maximal run of the second class it starts in, and a run holds
\* at most one match: the one that starts at its first letter or digit, if
\* 8 characters or more follow it in the run.
TextRunStartsAt(t, p) == IsTextChar(t[p]) /\ (p = 1 \/ ~IsTextChar(t[p - 1]))
TextRunEnd(t, p) ==
  CHOOSE q \in p..Len(t) :
    /\ q = Len(t) \/ ~IsTextChar(t[q + 1])
    /\ \A r \in p..q : IsTextChar(t[r])
MatchInRun(t, a) ==
  LET b == TextRunEnd(t, a)
  IN IF \A p \in a..b : ~IsAlnum(t[p]) THEN <<>>
     ELSE LET p == CHOOSE p \in a..b :
                     IsAlnum(t[p]) /\ \A r \in a..(p - 1) : ~IsAlnum(t[r])
          IN IF b - p >= 8 THEN <<SubSeq(t, p, b)>> ELSE <<>>
RECURSIVE MatchesBetween(_, _, _)
MatchesBetween(t, lo, hi) ==
  IF lo > hi THEN <<>>
  ELSE IF lo = hi
       THEN IF TextRunStartsAt(t, lo) THEN MatchInRun(t, lo) ELSE <<>>
       ELSE MatchesBetween(t, lo, (lo + hi) \div 2)
            \o MatchesBetween(t, (lo + hi) \div 2 + 1, hi)
TextMatches(t) == MatchesBetween(t, 1, Len(t))

\* the filter of the matches that look like a message
IsGoodMatch(m) ==
  LET trimmed == Trim(m)
  IN /\ Len(trimmed) >= 8
     /\ HasChar(trimmed, 32)
     /\ ~StartsWith(trimmed, <<78, 83>>)
     /\ \E i \in 1..Len(trimmed) : IsLower(trimmed[i])
     /\ \E i \in 1..Len(trimmed) : IsLetter(trimmed[i])

\* what the UTF-8 window returns at one offset (0-based, as in the code)
Utf8At(bytes, offset) ==
  LET end == Min(Len(bytes), offset + 500)
      testText == Utf8Slice(bytes, offset + 1, end)
      good == SelectSeq(TextMatches(testText), IsGoodMatch)
      result == IF good = <<>> THEN <<>> ELSE Trim(SortByLengthDesc(good)[1])
  IN IF Len(result) >= 8 THEN result ELSE NoText

\* "Strategy 2" of the code: offsets 15 .. min(100, length) - 1, the first
\* offset that returns a text decides
Utf8Window(bytes) ==
  LET hits == {o \in 15..(Min(100, Len(bytes)) - 1) : Utf8At(bytes, o) # NoText}
  IN IF hits = {} THEN NoText
     ELSE Utf8At(bytes, CHOOSE o \in hits : \A o2 \in hits : o <= o2)

\* the number of bytes the UTF-16LE strategy reads at one offset
Utf16MaxBytes == 200

\* a faulty variant: the high byte first
Utf16UnitBigEndian(bytes, offset, k) ==
  256 * bytes[offset + 2 * k - 1] + bytes[offset + 2 * k]

\* byte1 | (byte2 << 8) of the k-th pair at an offset
Utf16Unit(bytes, offset, k) ==
  bytes[offset + 2 * k - 1] + 256 * bytes[offset + 2 * k]
\* the characters read at one offset of the UTF-16LE window: i = 0, 2, ..
\* below min(length - 1, 200), up to a NUL pair or a code unit outside
\* 32..126
Utf16Chars(bytes, offset) ==
  LET limit == Min(Len(bytes) - offset - 1, Utf16MaxBytes)
      count == IF limit <= 0 THEN 0 ELSE (limit + 1) \div 2
      IsAscii(k) == /\ Utf16Unit(bytes, offset, k) >= 32
                    /\ Utf16Unit(bytes, offset, k) <= 126
      n == CHOOSE n \in 0..count :
             /\ n = count \/ ~IsAscii(n + 1)
             /\ \A k \in 1..n : IsAscii(k)
  IN [k \in 1..n |-> Utf16Unit(bytes, offset, k)]

Utf16At(bytes, offset) ==
  LET utf16String == Utf16Chars(bytes, offset)
  IN IF /\ Len(bytes) - offset >= 20
        /\ Len(utf16String) >= 10
        /\ HasChar(utf16String, 32)
        /\ \E i \in 1..Len(utf16String) : IsLower(utf16String[i])
     THEN Trim(utf16String) ELSE NoText

\* "Strategy 3" of the code: even offsets 20 .. min(100, length - 2) - 1
Utf16Window(bytes) ==
  LET hits == {o \in 20..(Min(100, Len(bytes) - 2) - 1) :
                 o % 2 = 0 /\ Utf16At(bytes, o) # NoText}
  IN IF hits = {} THEN NoText
     ELSE Utf16At(bytes, CHOOSE o \in hits : \A o2 \in hits : o <= o2)

(***************************************************************************)
(* decodeAttributedBody: the keyed-container (binary plist) strategy.      *)
(* A parsed value is a record tagged with its JavaScript type; an object   *)
(* keeps its keys in the order of Object.keys.  The parser builds every    *)
(* value it returns by recursion on the file, so a parsed value is a tree. *)
(***************************************************************************)

Str(s) == [t |-> "string", s |-> s]
Num(n) == [t |-> "number", n |-> n]
Arr(a) == [t |-> "array", a |-> a]
Obj(k, v) == [t |-> "object", k |-> k, v |-> v]
Nul == [t |-> "null"]
Undefined == [t |-> "undefined"]

\* property names of the code
K_objects == <<36, 111, 98, 106, 101, 99, 116, 115>>            \* $objects
K_class == <<36, 99, 108, 97, 115, 115>>                        \* $class
K_classes == <<36, 99, 108, 97, 115, 115, 101, 115>>            \* $classes
K_NS == <<78, 83>>                                              \* NS
K_string == <<115, 116, 114, 105, 110, 103>>                    \* string
K_NSString == <<78, 83, 83, 116, 114, 105, 110, 103>>           \* NSString
K_NSAttributedString ==                                         \* NSAttributedString
  <<78, 83, 65, 116, 116, 114, 105, 98, 117, 116, 101, 100, 83, 116, 114, 105, 110, 103>>
K_CFUID == <<67, 70, 36, 85, 73, 68>>                           \* CF$UID

\* o[key] where o is neither null nor undefined
Get(o, key) ==
  IF o.t = "object" /\ \E i \in 1..Len(o.k) : o.k[i] = key
  THEN o.v[CHOOSE i \in 1..Len(o.k) : o.k[i] = key]
  ELSE Undefined
\* o?.[key]
GetOpt(o, key) == IF o.t \in {"null", "undefined"} THEN Undefined ELSE Get(o, key)

Truthy(v) ==
  CASE v.t = "string" -> Len(v.s) > 0
    [] v.t = "number" -> v.n # 0
    [] v.t \in {"null", "undefined"} -> FALSE
    [] OTHER -> TRUE
\* x && typeof x === 'string'
IsText(v) == v.t = "string" /\ Len(v.s) > 0
\* x && typeof x === 'object'
IsObjectLike(v) == v.t \in {"object", "array"}

\* the values of the keys of o that Keep accepts, in key order
KeptValues(o, Keep(_)) ==
  LET ix == SelectSeq([i \in 1..Len(o.k) |-> i], LAMBDA i : Keep(o.k[i]))
  IN [j \in 1..Len(ix) |-> o.v[ix[j]]]

\* searchObject: every string below o, the keys $class and $classes skipped
RECURSIVE SearchObject(_)
RECURSIVE SearchItems(_, _)
SearchObject(o) ==
  IF IsText(o) THEN <<o.s>>
  ELSE IF o.t = "array" THEN SearchItems(o.a, 1)
  ELSE IF o.t = "object"
       THEN SearchItems(KeptValues(o, LAMBDA key : key # K_class /\ key # K_classes), 1)
  ELSE <<>>
SearchItems(items, i) ==
  IF i > Len(items) THEN <<>>
  ELSE SearchObject(items[i]) \o SearchItems(items, i + 1)

\* findAllStrings: every string below obj, the keys that begin with $
\* skipped, $objects excepted
RECURSIVE FindAllStrings(_)
RECURSIVE FindAllItems(_, _)
FindAllStrings(obj) ==
  IF IsText(obj) THEN <<obj.s>>
  ELSE IF obj.t = "array" THEN FindAllItems(obj.a, 1)
  ELSE IF obj.t = "object"
       THEN FindAllItems(
              KeptValues(obj, LAMBDA key : ~StartsWith(key, <<36>>) \/ key = K_objects), 1)
  ELSE <<>>
FindAllItems(items, i) ==
  IF i > Len(items) THEN <<>>
  ELSE FindAllStrings(items[i]) \o FindAllItems(items, i + 1)

\* what one element obj of $objects pushes on allStrings
ObjectStrings(obj, objects) ==
  IF IsText(obj) THEN <<obj.s>>
  ELSE IF ~IsObjectLike(obj) THEN <<>>
  ELSE
    LET nsString == GetOpt(Get(obj, K_NS), K_string)
        attrStr == Get(obj, K_NSAttributedString)
        attrString == Get(attrStr, K_string)
        refIndex == Get(attrString, K_CFUID)
        referred == IF refIndex.t = "number" /\ refIndex.n >= 0
                       /\ refIndex.n < Len(objects)
                    THEN objects[refIndex.n + 1] ELSE Undefined
    IN (IF IsText(nsString) THEN <<nsString.s>> ELSE <<>>)
       \o (IF IsText(Get(obj, K_NSString)) THEN <<Get(obj, K_NSString).s>> ELSE <<>>)
       \o (IF IsText(Get(obj, K_string)) THEN <<Get(obj, K_string).s>> ELSE <<>>)
       \o (IF Truthy(attrStr) /\ IsText(attrString) THEN <<attrString.s>> ELSE <<>>)
       \o (IF /\ Truthy(attrStr) /\ IsObjectLike(attrString)
              /\ refIndex.t # "undefined" /\ IsText(referred)
           THEN <<referred.s>> ELSE <<>>)
       \o SearchObject(obj)

RECURSIVE ObjectsStrings(_, _)
ObjectsStrings(objects, i) ==
  IF i > Len(objects) THEN <<>>
  ELSE ObjectStrings(objects[i], objects) \o ObjectsStrings(objects, i + 1)

\* /^[A-Z][a-z]+$/
IsCapitalizedWord(s) ==
  Len(s) >= 2 /\ IsUpper(s[1]) /\ \A i \in 2..Len(s) : IsLower(s[i])
\* /^\d+$/
IsNumber(s) == Len(s) >= 1 /\ \A i \in 1..Len(s) : IsDigit(s[i])
\* /[.,!?;:]/
HasPunctuation(s) == \E i \in 1..Len(s) : s[i] \in {46, 44, 33, 63, 59, 58}

IsMeaningfulString(s) ==
  Len(s) > 3 /\ ~IsCapitalizedWord(s) /\ ~StartsWith(s, K_NS) /\ ~IsNumber(s)
IsTextLike(s) == HasChar(s, 32) \/ HasPunctuation(s) \/ Len(s) > 20

\* the text the $objects array gives, NoText when it gives none
ArchiveText(plistData) ==
  LET objects == Get(plistData, K_objects)
      allStrings == ObjectsStrings(objects.a, 1)
      meaningfulStrings == SelectSeq(Unique(allStrings), IsMeaningfulString)
      textLikeStrings == SelectSeq(meaningfulStrings, IsTextLike)
  IN IF objects.t # "array" THEN NoText
     ELSE IF meaningfulStrings = <<>> THEN NoText
     ELSE IF textLikeStrings # <<>> THEN SortByLengthDesc(textLikeStrings)[1]
     ELSE SortByLengthDesc(meaningfulStrings)[1]

\* the text the search of the whole structure gives, NoText when none
FallbackText(plistData) ==
  LET meaningfulStrings == SelectSeq(FindAllStrings(plistData), LAMBDA s : Len(s) > 3)
  IN IF meaningfulStrings = <<>> THEN NoText
     ELSE SortByLengthDesc(meaningfulStrings)[1]

\* The body of the inner try: the parse and the walk of what it returns.
\* kind is "text" (a return), "none" (the end of the block is reached) or
\* "error" (an exception is raised: the parser throws, or parsed[0] is null
\* or undefined and reading its $objects is a TypeError).
ParseAndSearch(payload) ==
  IF payload.plist.kind = "throws" THEN [kind |-> "error", text |-> NoText]
  ELSE IF payload.plist.values = <<>> THEN [kind |-> "none", text |-> NoText]
  ELSE LET plistData == payload.plist.values[1]
       IN IF plistData.t \in {"null", "undefined"}
          THEN [kind |-> "error", text |-> NoText]
          ELSE IF ArchiveText(plistData) # NoText
               THEN [kind |-> "text", text |-> ArchiveText(plistData)]
          ELSE IF FallbackText(plistData) # NoText
               THEN [kind |-> "text", text |-> FallbackText(plistData)]
          ELSE [kind |-> "none", text |-> NoText]

\* a faulty variant: the exception leaves the block
RethrowParseError(outcome) == outcome

\* catch (parseError) of the inner try: the exception is dropped and the
\* function goes on with the string extraction below the block
CatchParseError(outcome) ==
  IF outcome.kind = "error" THEN [kind |-> "none", text |-> NoText] ELSE outcome

\* the keyed-container strategy as a whole
KeyedContainer(payload) == CatchParseError(ParseAndSearch(payload))

(***************************************************************************)
(* processAllVisualizations: the message loop                              *)
(***************************************************************************)

\* A row of the query: date (minutes since 2001-01-01T00:00Z), text (NoText
\* for NULL or ''), isFromMe, attributedBody (present is FALSE for NULL) and
\* score, what sentimentAnalyzer.analyze answers for the text of the row.
NoBlob == [present |-> FALSE, bytes |-> <<>>, plist |-> [kind |-> "throws"]]
Blob(bytes, plist) == [present |-> TRUE, bytes |-> bytes, plist |-> plist]

\* !text || text.trim() === ''
IsBlank(text) == Trim(text) = <<>>

\* /'.+?'/.test(text): two single quotes with one character or more between
\* them, none of them a line terminator
ReactionPattern(text) ==
  \E i \in 1..Len(text) : \E j \in (i + 2)..Len(text) :
    /\ text[i] = 39 /\ text[j] = 39
    /\ \A k \in (i + 1)..(j - 1) : ~IsLineTerminator(text[k])

\* text.match(/\b\w+\b/g)?.length || 0: the maximal runs of word characters
WordCount(text) ==
  Cardinality({i \in 1..Len(text) :
                 IsWordChar(text[i]) /\ (i = 1 \/ ~IsWordChar(text[i - 1]))})

\* the calendar of a Date
IsLeapYear(y) == (y % 4 = 0 /\ y % 100 # 0) \/ y % 400 = 0
DaysInYear(y) == IF IsLeapYear(y) THEN 366 ELSE 365
MonthLengths(y) ==
  <<31, IF IsLeapYear(y) THEN 29 ELSE 28, 31, 30, 31, 30, 31, 31, 30, 31, 30, 31>>
RECURSIVE YearFrom(_, _)
YearFrom(y, d) ==
  IF d < 0 THEN YearFrom(y - 1, d + DaysInYear(y - 1))
  ELSE IF d < DaysInYear(y) THEN [year |-> y, dayOfYear |-> d]
  ELSE YearFrom(y + 1, d - DaysInYear(y))
RECURSIVE MonthFrom(_, _, _)
MonthFrom(y, m, d) ==
  IF d < MonthLengths(y)[m] THEN m ELSE MonthFrom(y, m + 1, d - MonthLengths(y)[m])
DayNumber(date) == date \div 1440
GetFullYear(date) == YearFrom(2001, DayNumber(date)).year
DayOfYear(date) == YearFrom(2001, DayNumber(date)).dayOfYear
GetMonth(date) == MonthFrom(GetFullYear(date), 1, DayOfYear(date)) - 1
GetHours(date) == (date % 1440) \div 60
GetDay(date) == (DayNumber(date) + 1) % 7

dayNames ==
  <<"Sunday", "Monday", "Tuesday", "Wednesday", "Thursday", "Friday", "Saturday">>

\* `${year}-W${week}` with the week padded to 2 digits, as the number
\* year * 100 + week: equal keys are equal numbers
WeekKey(date) == GetFullYear(date) * 100 + (DayOfYear(date) \div 7)
\* `${year}-${month}` with the month padded to 2 digits, as the number
\* year * 100 + month: the order of the strings is the order of the numbers
MonthKey(date) == GetFullYear(date) * 100 + (GetMonth(date) + 1)

\* score !== 0 ? max(-1, min(1, score / 5)) : 0, in fifths
NormalizedSentiment(score) == Max(-5, Min(5, score))

\* the record pushed on processedMessages for a row whose text is kept
Message(row, text) ==
  [ date |-> row.date,
    text |-> text,
    isFromMe |-> row.isFromMe,
    wordCount |-> WordCount(text),
    hour |-> GetHours(row.date),
    dayOfWeek |-> GetDay(row.date),
    dayName |-> dayNames[GetDay(row.date) + 1],
    weekKey |-> WeekKey(row.date),
    monthKey |-> MonthKey(row.date),
    sentiment |-> NormalizedSentiment(row.score) ]

\* the locals of the message loop
LoopState(i, pm, rf, mwab, dc, at) ==
  [idx |-> i, processedMessages |-> pm, reactionsFiltered |-> rf,
   messagesWithAttributedBody |-> mwab, decodedCount |-> dc, at |-> at]

\* a faulty variant: a blank text is kept
KeepOrSkipKeepsBlank(st, row, text, filter) ==
  IF filter /\ ReactionPattern(text)
  THEN [st EXCEPT !.reactionsFiltered = @ + 1]
  ELSE [st EXCEPT !.processedMessages = Append(@, Message(row, text))]

\* a faulty variant: the message is put in front of the list
KeepOrSkipPrepends(st, row, text, filter) ==
  IF IsBlank(text) THEN st
  ELSE IF filter /\ ReactionPattern(text)
       THEN [st EXCEPT !.reactionsFiltered = @ + 1]
       ELSE [st EXCEPT !.processedMessages = <<Message(row, text)>> \o @]

\* the rest of one iteration, once text is resolved: the row is skipped when
\* the text is blank, counted and skipped when the filter is on and the
\* text holds the reaction pattern, pushed otherwise
KeepOrSkip(st, row, text, filter) ==
  IF IsBlank(text) THEN st
  ELSE IF filter /\ ReactionPattern(text)
       THEN [st EXCEPT !.reactionsFiltered = @ + 1]
       ELSE [st EXCEPT !.processedMessages = Append(@, Message(row, text))]

\* the row needs its payload decoded
NeedsDecode(row) == IsBlank(row.text) /\ row.attributedBody.present

\* The loop runs from row i without giving up control until it reaches a
\* row whose payload it must decode (at = "await", idx the row) or the end
\* of the rows (at = "end").
RECURSIVE LoopFrom(_, _, _, _)
LoopFrom(messages, i, st, filter) ==
  IF i > Len(messages) THEN [st EXCEPT !.idx = i, !.at = "end"]
  ELSE IF NeedsDecode(messages[i])
       THEN [st EXCEPT !.idx = i, !.at = "await",
                       !.messagesWithAttributedBody = @ + 1]
       ELSE LoopFrom(messages, i + 1,
                     KeepOrSkip(st, messages[i], messages[i].text, filter), filter)

\* a faulty variant: a row whose payload gave no text is kept all the same
AfterDecodeKeepsUndecoded(st, row, decodeResult, thrown, filter) ==
  IF ~thrown /\ ~IsBlank(decodeResult)
  THEN KeepOrSkip([st EXCEPT !.decodedCount = @ + 1], row, decodeResult, filter)
  ELSE [st EXCEPT !.processedMessages = Append(@, Message(row, decodeResult))]

\* a faulty variant: a payload that gave no text is counted as decoded
AfterDecodeCountsFailure(st, row, decodeResult, thrown, filter) ==
  KeepOrSkip([st EXCEPT !.decodedCount = @ + 1], row, decodeResult, filter)

\* what the loop does with the answer of decodeAttributedBody for row idx:
\* the text is taken when it is not blank, the row is skipped when it is, or
\* when the decoder raised an error
AfterDecode(st, row, decodeResult, thrown, filter) ==
  IF ~thrown /\ ~IsBlank(decodeResult)
  THEN KeepOrSkip([st EXCEPT !.decodedCount = @ + 1], row, decodeResult, filter)
  ELSE st

(***************************************************************************)
(* processAllVisualizations: the aggregates                                *)
(***************************************************************************)

dayOrder ==
  <<"Monday", "Tuesday", "Wednesday", "Thursday", "Friday", "Saturday", "Sunday">>

\* heatmapMap.get(`${day}-${hour}`) || 0
HeatmapCount(pm, day, hour) ==
  Cardinality({i \in 1..Len(pm) : pm[i].dayName = day /\ pm[i].hour = hour})
\* the number of hours the inner loop walks for one day
HoursPerDay == 24
\* a faulty variant: the hours run from 1 to 24
HeatmapDataFromHourOne(pm) ==
  [k \in 1..(Len(dayOrder) * HoursPerDay) |->
     LET day == dayOrder[(k - 1) \div HoursPerDay + 1]
         hour == ((k - 1) % HoursPerDay) + 1
     IN [day |-> day, hour |-> hour, value |-> HeatmapCount(pm, day, hour)]]

\* heatmapData: for each day of dayOrder, for each hour, one cell
HeatmapData(pm) ==
  [k \in 1..(Len(dayOrder) * HoursPerDay) |->
     LET day == dayOrder[(k - 1) \div HoursPerDay + 1]
         hour == (k - 1) % HoursPerDay
     IN [day |-> day, hour |-> hour, value |-> HeatmapCount(pm, day, hour)]]

\* [...processedMessages].sort((a, b) => a.date - b.date): stable
RECURSIVE InsertByDate(_, _)
InsertByDate(sorted, m) ==
  IF sorted = <<>> THEN <<m>>
  ELSE IF Head(sorted).date <= m.date
       THEN <<Head(sorted)>> \o InsertByDate(Tail(sorted), m)
       ELSE <<m>> \o sorted
RECURSIVE SortByDateFrom(_, _, _)
SortByDateFrom(pm, i, out) ==
  IF i > Len(pm) THEN out ELSE SortByDateFrom(pm, i + 1, InsertByDate(out, pm[i]))
SortByDate(pm) == SortByDateFrom(pm, 1, <<>>)

\* a Map from month key to the list of gaps: a function on the keys set
EmptyMap == [k \in {} |-> <<>>]
Push(map, key, x) ==
  IF key \in DOMAIN map THEN [map EXCEPT ![key] = Append(@, x)]
  ELSE [k \in DOMAIN map \cup {key} |-> IF k = key THEN <<x>> ELSE map[k]]

\* the number of hours below which a gap is a response
ResponseWindowHours == 168

\* a faulty variant: a gap of exactly a week is a response too
IsResponseWithinWeekInclusive(prev, curr) ==
  /\ prev.isFromMe # curr.isFromMe
  /\ curr.date - prev.date > 0
  /\ curr.date - prev.date <= ResponseWindowHours * 60

\* the pair is a message and its response: the senders differ and
\* 0 < timeDiffHours < 168
IsResponse(prev, curr) ==
  /\ prev.isFromMe # curr.isFromMe
  /\ curr.date - prev.date > 0
  /\ curr.date - prev.date < ResponseWindowHours * 60

\* the response time loop over the adjacent pairs; a gap is kept in minutes
\* (timeDiffHours * 60)
RECURSIVE CollectTimes(_, _, _)
CollectTimes(sorted, i, maps) ==
  IF i > Len(sorted) THEN maps
  ELSE
    LET prev == sorted[i - 1]
        curr == sorted[i]
        diff == curr.date - prev.date
    IN CollectTimes(sorted, i + 1,
         IF IsResponse(prev, curr)
         THEN IF ~prev.isFromMe /\ curr.isFromMe
              THEN [maps EXCEPT !.youToThem = Push(@, curr.monthKey, diff)]
              ELSE [maps EXCEPT !.themToYou = Push(@, curr.monthKey, diff)]
         ELSE maps)
ResponseTimes(sorted) ==
  CollectTimes(sorted, 2, [youToThem |-> EmptyMap, themToYou |-> EmptyMap])

\* arr.sort((a, b) => a - b)
RECURSIVE InsertNumber(_, _)
InsertNumber(sorted, x) ==
  IF sorted = <<>> THEN <<x>>
  ELSE IF Head(sorted) <= x THEN <<Head(sorted)>> \o InsertNumber(Tail(sorted), x)
       ELSE <<x>> \o sorted
RECURSIVE SortNumbersFrom(_, _, _)
SortNumbersFrom(arr, i, out) ==
  IF i > Len(arr) THEN out ELSE SortNumbersFrom(arr, i + 1, InsertNumber(out, arr[i]))
SortNumbers(arr) == SortNumbersFrom(arr, 1, <<>>)

\* a faulty variant: the upper middle sample for an even count
MedianUpperMiddle(arr) ==
  LET sorted == SortNumbers(arr)
      mid == Len(sorted) \div 2
  IN IF Len(arr) = 0 THEN [isNull |-> TRUE, num |-> 0, den |-> 1]
     ELSE [isNull |-> FALSE, num |-> sorted[mid + 1], den |-> 60]

\* median: null for no sample, else the number of hours num / den (the
\* samples are minutes)
NoValue == [isNull |-> TRUE, num |-> 0, den |-> 1]
Median(arr) ==
  LET sorted == SortNumbers(arr)
      mid == Len(sorted) \div 2
  IN IF Len(arr) = 0 THEN NoValue
     ELSE IF Len(sorted) % 2 = 0
          THEN [isNull |-> FALSE, num |-> sorted[mid] + sorted[mid + 1], den |-> 120]
          ELSE [isNull |-> FALSE, num |-> sorted[mid + 1], den |-> 60]

\* allMonthsArray.sort(): the keys of both maps, ascending
RECURSIVE SortedKeys(_)
SortedKeys(keys) ==
  IF keys = {} THEN <<>>
  ELSE LET least == CHOOSE k \in keys : \A k2 \in keys : k <= k2
       IN <<least>> \o SortedKeys(keys \ {least})

MapGet(map, key) == IF key \in DOMAIN map THEN map[key] ELSE <<>>

\* responseTime
ResponseTimeData(maps) ==
  LET months == SortedKeys(DOMAIN maps.youToThem \cup DOMAIN maps.themToYou)
  IN [k \in 1..Len(months) |->
        [month |-> months[k],
         youToThem |-> Median(MapGet(maps.youToThem, months[k])),
         themToYou |-> Median(MapGet(maps.themToYou, months[k]))]]

\* the number of minutes below which two messages of one sender are a
\* double text
DoubleTextMinutes == 5
\* a faulty variant: two messages exactly 5 minutes apart are a double text
DoubleTextsWithinFiveInclusive(sorted, fromMe) ==
  Cardinality({i \in 1..(Len(sorted) - 1) :
                 /\ sorted[i + 1].date - sorted[i].date <= DoubleTextMinutes
                 /\ sorted[i].isFromMe = sorted[i + 1].isFromMe
                 /\ sorted[i].isFromMe = fromMe})
\* the double texts of one sender
DoubleTexts(sorted, fromMe) ==
  Cardinality({i \in 1..(Len(sorted) - 1) :
                 /\ sorted[i + 1].date - sorted[i].date < DoubleTextMinutes
                 /\ sorted[i].isFromMe = sorted[i + 1].isFromMe
                 /\ sorted[i].isFromMe = fromMe})

CONVERSATION_GAP_HOURS == 24

\* a faulty variant: a gap of exactly 24 hours stays inside the conversation
StartsConversationLate(prev, curr) ==
  curr.date - prev.date > CONVERSATION_GAP_HOURS * 60

\* timeDiffHours >= CONVERSATION_GAP_HOURS
StartsConversation(prev, curr) ==
  curr.date - prev.date >= CONVERSATION_GAP_HOURS * 60

\* the grouping loop: conversations closed so far and currentConversation
RECURSIVE GroupFrom(_, _, _, _)
GroupFrom(sorted, i, closed, currentConversation) ==
  IF i > Len(sorted)
  THEN IF Len(currentConversation) > 0 THEN Append(closed, currentConversation)
       ELSE closed
  ELSE IF StartsConversation(sorted[i - 1], sorted[i])
       THEN GroupFrom(sorted, i + 1, Append(closed, currentConversation), <<sorted[i]>>)
       ELSE GroupFrom(sorted, i + 1, closed, Append(currentConversation, sorted[i]))
Conversations(sorted) ==
  IF Len(sorted) > 0 THEN GroupFrom(sorted, 2, <<>>, <<sorted[1]>>) ELSE <<>>

\* a faulty variant: a conversation is counted for the sender of its first
\* message
EndersByFirstMessage(convs, fromMe) ==
  Cardinality({c \in 1..Len(convs) :
                 Len(convs[c]) > 0 /\ convs[c][1].isFromMe = fromMe})
\* conversationEnders of one sender
Enders(convs, fromMe) ==
  Cardinality({c \in 1..Len(convs) :
                 Len(convs[c]) > 0 /\ convs[c][Len(convs[c])].isFromMe = fromMe})

NoReplyLadder ==
  [isNull |-> TRUE, doubleTextsYou |-> 0, doubleTextsThem |-> 0,
   endersYou |-> 0, endersThem |-> 0]
ReplyLadderData(sorted) ==
  [isNull |-> FALSE,
   doubleTextsYou |-> DoubleTexts(sorted, TRUE),
   doubleTextsThem |-> DoubleTexts(sorted, FALSE),
   endersYou |-> Enders(Conversations(sorted), TRUE),
   endersThem |-> Enders(Conversations(sorted), FALSE)]

(***************************************************************************)
(* The weekly charts: words per week and conversation ratio                *)
(***************************************************************************)

\* the days from the epoch to January 1 of a year
RECURSIVE DaysBeforeYear(_)
DaysBeforeYear(y) ==
  IF y = 2001 THEN 0
  ELSE IF y > 2001 THEN DaysBeforeYear(y - 1) + DaysInYear(y - 1)
  ELSE DaysBeforeYear(y + 1) - DaysInYear(y)
\* the days from January 1 to the first of a month (1 to 12) of a year
RECURSIVE DaysBeforeMonth(_, _)
DaysBeforeMonth(y, m) ==
  IF m = 1 THEN 0 ELSE DaysBeforeMonth(y, m - 1) + MonthLengths(y)[m - 1]
\* the Date of a year, a month (0 is January), a day of the month and the
\* minutes of the day: a month outside 0..11 and a day outside the month
\* carry over, as they do in setMonth and setDate
MakeDate(year, month, day, minutes) ==
  LET y == year + (month \div 12)
      m == (month % 12) + 1
  IN (DaysBeforeYear(y) + DaysBeforeMonth(y, m) + (day - 1)) * 1440 + minutes
GetDate(date) ==
  DayOfYear(date) - DaysBeforeMonth(GetFullYear(date), GetMonth(date) + 1) + 1
SetMonth(date, month) ==
  MakeDate(GetFullYear(date), month, GetDate(date), date % 1440)
SetDate(date, day) ==
  MakeDate(GetFullYear(date), GetMonth(date), day, date % 1440)

\* sixMonthsAgo: new Date() with its month set 6 back
SixMonthsAgo(clock) == SetMonth(clock, GetMonth(clock) - 6)
\* a faulty variant: the messages of all time
RecentMessagesOfAllTime(pm, clock) == pm
\* recentMessages
RecentMessages(pm, clock) ==
  SelectSeq(pm, LAMBDA m : m.date >= SixMonthsAgo(clock))

\* toLocaleDateString([], { month: 'short', day: 'numeric' }), "Jan 7": the
\* month and the day of the month and not the year, as month * 100 + day
ShortDate(date) == (GetMonth(date) + 1) * 100 + GetDate(date)
\* new Date(week).getTime() of such a string: the day in the year 2001,
\* "Feb 29" carried over to March 1
ParseShortDate(week) == MakeDate(2001, (week \div 100) - 1, week % 100, 0)

\* .sort((a, b) => new Date(a.week).getTime() - new Date(b.week).getTime())
RECURSIVE InsertByWeek(_, _)
InsertByWeek(sorted, e) ==
  IF sorted = <<>> THEN <<e>>
  ELSE IF ParseShortDate(Head(sorted).week) <= ParseShortDate(e.week)
       THEN <<Head(sorted)>> \o InsertByWeek(Tail(sorted), e)
       ELSE <<e>> \o sorted
RECURSIVE SortByWeekFrom(_, _, _)
SortByWeekFrom(arr, i, out) ==
  IF i > Len(arr) THEN out ELSE SortByWeekFrom(arr, i + 1, InsertByWeek(out, arr[i]))
SortByWeek(arr) == SortByWeekFrom(arr, 1, <<>>)

\* a Map as the list of its entries in the order of insertion; the place
\* of a key in it, 0 for a key it has not
IndexOfKey(entries, key) ==
  IF \E i \in 1..Len(entries) : entries[i].key = key
  THEN CHOOSE i \in 1..Len(entries) : entries[i].key = key
  ELSE 0

\* weeklyWords: per weekKey the words and the date of the earliest message
RECURSIVE WeeklyWordsFrom(_, _, _)
WeeklyWordsFrom(recent, i, map) ==
  IF i > Len(recent) THEN map
  ELSE LET msg == recent[i]
           at == IndexOfKey(map, msg.weekKey)
       IN WeeklyWordsFrom(recent, i + 1,
            IF at = 0
            THEN Append(map, [key |-> msg.weekKey, words |-> msg.wordCount,
                              date |-> msg.date])
            ELSE IF msg.date < map[at].date
            THEN [map EXCEPT ![at] = [key |-> msg.weekKey,
                                      words |-> @.words + msg.wordCount,
                                      date |-> msg.date]]
            ELSE [map EXCEPT ![at].words = @ + msg.wordCount])
WeeklyWords(recent) == WeeklyWordsFrom(recent, 1, <<>>)

\* weekStart of a words-per-week bucket:
\* setDate(getDate() - getDay()), the Sunday on or before the date
WeekLabelStart(date) == SetDate(date, GetDate(date) - GetDay(date))

\* wordsPerWeek
WordsPerWeek(recent) ==
  SortByWeek([k \in 1..Len(WeeklyWords(recent)) |->
                [week |-> ShortDate(WeekLabelStart(WeeklyWords(recent)[k].date)),
                 words |-> WeeklyWords(recent)[k].words]])

\* the messages per week shown under the chart: at most this many
MessagesPerWeek == 10
\* messagesByWeek, flattened
RECURSIVE MessagesByWeekFrom(_, _, _)
MessagesByWeekFrom(recent, i, map) ==
  IF i > Len(recent) THEN map
  ELSE LET msg == recent[i]
           at == IndexOfKey(map, msg.weekKey)
           shown == [text |-> msg.text, date |-> msg.date, isFromMe |-> msg.isFromMe,
                     weekKey |-> msg.weekKey]
       IN MessagesByWeekFrom(recent, i + 1,
            IF at = 0 THEN Append(map, [key |-> msg.weekKey, msgs |-> <<shown>>])
            ELSE IF Len(map[at].msgs) < MessagesPerWeek
            THEN [map EXCEPT ![at].msgs = Append(@, shown)]
            ELSE map)
RECURSIVE Flat(_)
Flat(lists) == IF lists = <<>> THEN <<>> ELSE Head(lists) \o Flat(Tail(lists))
WordsPerWeekMessages(recent) ==
  LET map == MessagesByWeekFrom(recent, 1, <<>>)
  IN Flat([k \in 1..Len(map) |-> map[k].msgs])

\* weekStart of a conversation-ratio bucket: the Monday on or before the
\* date (6 days back for a Sunday), at midnight
RatioWeekStart(date) ==
  LET day == SetDate(date, GetDate(date) - GetDay(date) + (IF GetDay(date) = 0 THEN -6 ELSE 1))
  IN day - (day % 1440)
\* toISOString().split('T')[0], "2001-01-08", as the number 20010108
IsoDay(date) == GetFullYear(date) * 10000 + (GetMonth(date) + 1) * 100 + GetDate(date)

\* weeklyRatio: per week the words of either sender
RECURSIVE WeeklyRatioFrom(_, _, _)
WeeklyRatioFrom(recent, i, map) ==
  IF i > Len(recent) THEN map
  ELSE LET msg == recent[i]
           weekStart == RatioWeekStart(msg.date)
           at == IndexOfKey(map, IsoDay(weekStart))
       IN WeeklyRatioFrom(recent, i + 1,
            IF at = 0
            THEN Append(map, [key |-> IsoDay(weekStart),
                              you |-> IF msg.isFromMe THEN msg.wordCount ELSE 0,
                              them |-> IF msg.isFromMe THEN 0 ELSE msg.wordCount,
                              weekStart |-> weekStart])
            ELSE IF msg.isFromMe
            THEN [map EXCEPT ![at].you = @ + msg.wordCount]
            ELSE [map EXCEPT ![at].them = @ + msg.wordCount])
WeeklyRatio(recent) == WeeklyRatioFrom(recent, 1, <<>>)

\* total > 0 ? count / total : 0, as a fraction
Share(count, total) ==
  IF total > 0 THEN [num |-> count, den |-> total] ELSE [num |-> 0, den |-> 1]
\* conversationRatio
ConversationRatio(recent) ==
  SortByWeek([k \in 1..Len(WeeklyRatio(recent)) |->
                LET counts == WeeklyRatio(recent)[k]
                IN [week |-> ShortDate(counts.weekStart),
                    you |-> Share(counts.you, counts.you + counts.them),
                    them |-> Share(counts.them, counts.you + counts.them)]])

(***************************************************************************)
(* Sentiment trends                                                        *)
(***************************************************************************)

\* arr.reduce((a, b) => a + b, 0)
RECURSIVE Sum(_)
Sum(arr) == IF arr = <<>> THEN 0 ELSE Head(arr) + Sum(Tail(arr))

\* a faulty variant: 0 for no number
AvgOrZero(arr) ==
  IF Len(arr) > 0 THEN [isNull |-> FALSE, num |-> Sum(arr), den |-> 5 * Len(arr)]
  ELSE [isNull |-> FALSE, num |-> 0, den |-> 1]
\* avg: null for no number, else the sum over the length; the numbers are
\* fifths, so the average is num / den with den 5 times the length
Avg(arr) ==
  IF Len(arr) > 0 THEN [isNull |-> FALSE, num |-> Sum(arr), den |-> 5 * Len(arr)]
  ELSE NoValue

\* weeklySentimentData: per weekKey the sentiments of either sender and of
\* both
RECURSIVE WeeklySentimentFrom(_, _, _)
WeeklySentimentFrom(pm, i, map) ==
  IF i > Len(pm) THEN map
  ELSE LET msg == pm[i]
           at == IndexOfKey(map, msg.weekKey)
           existing == IF at = 0
                       THEN [key |-> msg.weekKey, you |-> <<>>, them |-> <<>>, all |-> <<>>]
                       ELSE map[at]
           pushed == [existing EXCEPT
                        !.all = Append(@, msg.sentiment),
                        !.you = IF msg.isFromMe THEN Append(@, msg.sentiment) ELSE @,
                        !.them = IF msg.isFromMe THEN @ ELSE Append(@, msg.sentiment)]
       IN WeeklySentimentFrom(pm, i + 1,
            IF at = 0 THEN Append(map, pushed) ELSE [map EXCEPT ![at] = pushed])
WeeklySentimentData(pm) == WeeklySentimentFrom(pm, 1, <<>>)

\* sentimentTrends: the label of a week is the Sunday on or before the
\* first of its messages in the order of processedMessages
SentimentTrends(pm) ==
  SortByWeek([k \in 1..Len(WeeklySentimentData(pm)) |->
                LET sentiments == WeeklySentimentData(pm)[k]
                    weekMessages == SelectSeq(pm, LAMBDA m : m.weekKey = sentiments.key)
                IN [week |-> ShortDate(WeekLabelStart(weekMessages[1].date)),
                    you |-> Avg(sentiments.you),
                    them |-> Avg(sentiments.them),
                    all |-> Avg(sentiments.all)]])

(***************************************************************************)
(* Wrapped stats: totals, most active day, longest texts                   *)
(***************************************************************************)

\* a faulty variant: every message counts as one of theirs
TotalMessagesAllTheirs(pm, fromMe) ==
  Len(SelectSeq(pm, LAMBDA m : m.isFromMe = fromMe \/ ~fromMe))
\* totalMessagesYou and totalMessagesThem
TotalMessages(pm, fromMe) == Len(SelectSeq(pm, LAMBDA m : m.isFromMe = fromMe))
\* totalWordsYou and totalWordsThem
TotalWords(pm, fromMe) ==
  LET mine == SelectSeq(pm, LAMBDA m : m.isFromMe = fromMe)
  IN Sum([k \in 1..Len(mine) |-> mine[k].wordCount])

\* dateCounts: per day (toISOString().split('T')[0]) the date of its first
\* message and the number of its messages
RECURSIVE DateCountsFrom(_, _, _)
DateCountsFrom(pm, i, map) ==
  IF i > Len(pm) THEN map
  ELSE LET at == IndexOfKey(map, IsoDay(pm[i].date))
       IN DateCountsFrom(pm, i + 1,
            IF at = 0
            THEN Append(map, [key |-> IsoDay(pm[i].date), date |-> pm[i].date, count |-> 1])
            ELSE [map EXCEPT ![at].count = @ + 1])
\* .sort((a, b) => b.count - a.count)[0] || null: the first of the days
\* with the most messages
MostActiveDay(pm) ==
  LET days == DateCountsFrom(pm, 1, <<>>)
  IN IF days = <<>> THEN [isNull |-> TRUE, date |-> 0, count |-> 0]
     ELSE LET k == CHOOSE k \in 1..Len(days) :
                     /\ \A j \in 1..Len(days) : days[j].count <= days[k].count
                     /\ \A j \in 1..(k - 1) : days[j].count < days[k].count
          IN [isNull |-> FALSE, date |-> days[k].date, count |-> days[k].count]

\* what is kept of a message as a longest text
LongText(msg) ==
  [text |-> msg.text, length |-> Len(msg.text), isFromMe |-> msg.isFromMe,
   date |-> msg.date]
NoLongText == [isNull |-> TRUE]
\* longestText: the first of the longest texts of some messages
Longest(msgs) ==
  IF msgs = <<>> THEN NoLongText
  ELSE LET k == CHOOSE k \in 1..Len(msgs) :
                  /\ \A j \in 1..Len(msgs) : Len(msgs[j].text) <= Len(msgs[k].text)
                  /\ \A j \in 1..(k - 1) : Len(msgs[j].text) < Len(msgs[k].text)
       IN [isNull |-> FALSE, text |-> msgs[k].text, length |-> Len(msgs[k].text),
           isFromMe |-> msgs[k].isFromMe, date |-> msgs[k].date]
\* longestTextYou and longestTextThem
LongestOf(pm, fromMe) ==
  LET longest == Longest(SelectSeq(pm, LAMBDA m : m.isFromMe = fromMe))
  IN IF longest.isNull THEN NoLongText
     ELSE [isNull |-> FALSE, text |-> longest.text, length |-> longest.length,
           date |-> longest.date]

\* allLongestTexts after the walk of some messages: one push for each
AllLongestTexts(pm) == [k \in 1..Len(pm) |-> LongText(pm[k])]

\* .sort((a, b) => b.length - a.length): stable
RECURSIVE InsertLongText(_, _)
InsertLongText(sorted, e) ==
  IF sorted = <<>> THEN <<e>>
  ELSE IF Head(sorted).length >= e.length
       THEN <<Head(sorted)>> \o InsertLongText(Tail(sorted), e)
       ELSE <<e>> \o sorted
RECURSIVE SortLongTextsFrom(_, _, _)
SortLongTextsFrom(arr, i, out) ==
  IF i > Len(arr) THEN out ELSE SortLongTextsFrom(arr, i + 1, InsertLongText(out, arr[i]))
SortLongTexts(arr) == SortLongTextsFrom(arr, 1, <<>>)

\* the size of the list of the longest messages
LongestTextsKept == 10
\* .slice(0, n)
Slice(arr, n) == SubSeq(arr, 1, Min(n, Len(arr)))
\* longestTexts
LongestTexts(pm) == Slice(SortLongTexts(AllLongestTexts(pm)), LongestTextsKept)

(***************************************************************************)
(* Wrapped stats: emojis.  Intl.Segmenter is part of the platform: it is   *)
(* modelled by the rules of Unicode for extended grapheme clusters (UAX    *)
(* #29: GB3, GB4, GB5, GB9, GB11, GB12, GB13, GB999) on the classes of     *)
(* the code points that the texts of the model hold.                       *)
(***************************************************************************)

IsHighSurrogate(u) == u >= 55296 /\ u <= 56319
IsLowSurrogate(u) == u >= 56320 /\ u <= 57343
\* the code units i and i + 1 of a string are a surrogate pair
IsPairAt(text, i) ==
  i < Len(text) /\ IsHighSurrogate(text[i]) /\ IsLowSurrogate(text[i + 1])
\* the code points of a string, as a for-of loop and the segmenter read
\* them: a surrogate pair is one code point, a lone surrogate is itself
CodePoints(text) ==
  LET starts == SelectSeq([i \in 1..Len(text) |-> i],
                          LAMBDA i : ~(i > 1 /\ IsPairAt(text, i - 1)))
  IN [k \in 1..Len(starts) |->
        IF IsPairAt(text, starts[k])
        THEN 65536 + (text[starts[k]] - 55296) * 1024 + (text[starts[k] + 1] - 56320)
        ELSE text[starts[k]]]
\* the code units of a code point, and of some code points
Utf16Units(cp) ==
  IF cp < 65536 THEN <<cp>>
  ELSE <<55296 + ((cp - 65536) \div 1024), 56320 + ((cp - 65536) % 1024)>>
FromCodePoints(cps) == Flat([k \in 1..Len(cps) |-> Utf16Units(cps[k])])

\* Grapheme_Cluster_Break and Extended_Pictographic of a code point
IsControl(cp) == cp < 32 \/ (cp >= 127 /\ cp <= 159)
IsZWJ(cp) == cp = 8205
IsExtend(cp) ==
  \/ cp >= 768 /\ cp <= 879            \* combining marks
  \/ cp = 8419                         \* combining enclosing keycap
  \/ cp >= 65024 /\ cp <= 65039        \* variation selectors
  \/ cp >= 127995 /\ cp <= 127999      \* the skin tones, U+1F3FB to U+1F3FF
  \/ cp >= 917536 /\ cp <= 917631      \* tags
IsRegionalIndicator(cp) == cp >= 127462 /\ cp <= 127487
IsExtendedPictographic(cp) ==
  \/ cp \in {9792, 9794, 10084}        \* U+2640, U+2642, U+2764
  \/ cp >= 127744 /\ cp <= 127994      \* U+1F300 to U+1F3FA
  \/ cp >= 128000 /\ cp <= 128591      \* U+1F400 to U+1F64F
  \/ cp >= 128640 /\ cp <= 128767      \* U+1F680 to U+1F6FF
  \/ cp >= 129280 /\ cp <= 129535      \* U+1F900 to U+1F9FF

\* the regional indicators that end at place k
RegionalRun(cps, k) ==
  k - (IF \E j \in 1..k : ~IsRegionalIndicator(cps[j])
       THEN CHOOSE j \in 1..k :
              /\ ~IsRegionalIndicator(cps[j])
              /\ \A m \in (j + 1)..k : IsRegionalIndicator(cps[m])
       ELSE 0)
\* a cluster ends before the code point at place k
BreakBefore(cps, k) ==
  LET a == cps[k - 1]
      b == cps[k]
  IN IF a = 13 /\ b = 10 THEN FALSE                               \* GB3
     ELSE IF IsControl(a) \/ IsControl(b) THEN TRUE               \* GB4, GB5
     ELSE IF IsExtend(b) \/ IsZWJ(b) THEN FALSE                   \* GB9
     ELSE IF /\ IsExtendedPictographic(b) /\ IsZWJ(a)             \* GB11
             /\ \E j \in 1..(k - 2) :
                  /\ IsExtendedPictographic(cps[j])
                  /\ \A m \in (j + 1)..(k - 2) : IsExtend(cps[m])
          THEN FALSE
     ELSE IF /\ IsRegionalIndicator(a) /\ IsRegionalIndicator(b)  \* GB12, GB13
             /\ RegionalRun(cps, k - 1) % 2 = 1
          THEN FALSE
     ELSE TRUE                                                    \* GB999
\* a faulty variant: every code point of a text is a segment
SegmentsOfCodePoints(text) ==
  [k \in 1..Len(CodePoints(text)) |-> Utf16Units(CodePoints(text)[k])]
\* [...segmenter.segment(text)].map(s => s.segment)
Segments(text) ==
  LET cps == CodePoints(text)
      starts == SelectSeq([k \in 1..Len(cps) |-> k],
                          LAMBDA k : k = 1 \/ BreakBefore(cps, k))
  IN [g \in 1..Len(starts) |->
        FromCodePoints(SubSeq(cps, starts[g],
                              IF g < Len(starts) THEN starts[g + 1] - 1 ELSE Len(cps)))]

\* isEmojiGrapheme: some code point of the grapheme is in one of the ranges
IsEmojiGrapheme(grapheme) ==
  \E k \in 1..Len(CodePoints(grapheme)) :
    LET code == CodePoints(grapheme)[k]
    IN \/ code >= 127744 /\ code <= 129791   \* 0x1F300 to 0x1FAFF
       \/ code >= 9728 /\ code <= 9983       \* 0x2600 to 0x26FF
       \/ code >= 9984 /\ code <= 10175      \* 0x2700 to 0x27BF
       \/ code >= 126976 /\ code <= 127231   \* 0x1F000 to 0x1F0FF
       \/ code >= 127232 /\ code <= 127487   \* 0x1F100 to 0x1F1FF
       \/ code >= 127488 /\ code <= 127743   \* 0x1F200 to 0x1F2FF
       \/ code >= 8960 /\ code <= 9215       \* 0x2300 to 0x23FF
       \/ code >= 11088 /\ code <= 11093     \* 0x2B50 to 0x2B55
       \/ code >= 8252 /\ code <= 12953      \* 0x203C to 0x3299
       \/ code >= 917536 /\ code <= 917631   \* 0xE0020 to 0xE007F

\* emojis of a message
Emojis(text) == SelectSeq(Segments(text), IsEmojiGrapheme)

\* emojiCountsYou and emojiCountsThem: the Map from emoji to count
RECURSIVE CountInto(_, _, _)
CountInto(map, emojis, i) ==
  IF i > Len(emojis) THEN map
  ELSE LET at == IndexOfKey(map, emojis[i])
       IN CountInto(IF at = 0 THEN Append(map, [key |-> emojis[i], count |-> 1])
                    ELSE [map EXCEPT ![at].count = @ + 1],
                    emojis, i + 1)
RECURSIVE EmojiCountsFrom(_, _, _, _)
EmojiCountsFrom(pm, fromMe, i, map) ==
  IF i > Len(pm) THEN map
  ELSE EmojiCountsFrom(pm, fromMe, i + 1,
         IF pm[i].isFromMe = fromMe THEN CountInto(map, Emojis(pm[i].text), 1) ELSE map)
EmojiCounts(pm, fromMe) == EmojiCountsFrom(pm, fromMe, 1, <<>>)

\* .sort((a, b) => b.count - a.count) or .sort((a, b) => b[1] - a[1]): stable
RECURSIVE InsertByCount(_, _)
InsertByCount(sorted, e) ==
  IF sorted = <<>> THEN <<e>>
  ELSE IF Head(sorted).count >= e.count
       THEN <<Head(sorted)>> \o InsertByCount(Tail(sorted), e)
       ELSE <<e>> \o sorted
RECURSIVE SortByCountFrom(_, _, _)
SortByCountFrom(arr, i, out) ==
  IF i > Len(arr) THEN out ELSE SortByCountFrom(arr, i + 1, InsertByCount(out, arr[i]))
SortByCount(arr) == SortByCountFrom(arr, 1, <<>>)

\* the emojis kept of one sender, and of both
TopEmojisPerSender == 5
TopEmojisKept == 10
\* topEmojisYou and topEmojisThem
TopEmojisOf(counts, fromMe) ==
  LET top == Slice(SortByCount(counts), TopEmojisPerSender)
  IN [k \in 1..Len(top) |->
        [emoji |-> top[k].key, count |-> top[k].count, isFromMe |-> fromMe]]
\* topEmojis
TopEmojis(countsYou, countsThem) ==
  Slice(SortByCount(TopEmojisOf(countsYou, TRUE) \o TopEmojisOf(countsThem, FALSE)),
        TopEmojisKept)

\* useState(null) of wrappedStats
NoWrappedStats == [isNull |-> TRUE]
\* the object given to setWrappedStats
WrappedStats(pm) ==
  [isNull |-> FALSE,
   mostActiveDay |-> MostActiveDay(pm),
   longestText |-> Longest(pm),
   longestTextYou |-> LongestOf(pm, TRUE),
   longestTextThem |-> LongestOf(pm, FALSE),
   longestTexts |-> LongestTexts(pm),
   topEmojis |-> TopEmojis(EmojiCounts(pm, TRUE), EmojiCounts(pm, FALSE)),
   totalMessagesYou |-> TotalMessages(pm, TRUE),
   totalMessagesThem |-> TotalMessages(pm, FALSE),
   totalWordsYou |-> TotalWords(pm, TRUE),
   totalWordsThem |-> TotalWords(pm, FALSE)]

(***************************************************************************)
(* decodeAttributedBody, one step per strategy                             *)
(***************************************************************************)

Decoding == pc = "await"

\* the decoder leaves its caller's state alone
DecoderFrame ==
  UNCHANGED <<rows, filterReactions, now, pc, idx, processedMessages, reactionsFiltered,
              messagesWithAttributedBody, decodedCount, buf, dthrown,
              reactionCount, attributedBodyCount, heatmapData, responseTimeData,
              replyLadderData, sortedMessages, monthlyYouToThemTimes,
              monthlyThemToYouTimes, conversations, wordsPerWeekData,
              wordsPerWeekMessages, conversationRatioData, sentimentData,
              allLongestTexts, emojiCountsYou, emojiCountsThem, wrappedStats, page, harvest>>

\* return { text: ... }
Return(text) == dpc' = "done" /\ dres' = text
\* go on with the next strategy
FallTo(strategy) == dpc' = strategy /\ dres' = dres

\* a faulty variant: the raw strategies come first, whatever the header
DecodeStartSkipsContainer ==
  /\ Decoding /\ dpc = "start"
  /\ IF Len(buf.bytes) = 0 THEN Return(NoText) ELSE FallTo("ascii")
  /\ DecoderFrame

\* the empty payload returns at once; the header chooses between the keyed
\* container and the raw strategies
DecodeStart ==
  /\ Decoding /\ dpc = "start"
  /\ IF Len(buf.bytes) = 0 THEN Return(NoText)
     ELSE IF HasMagicHeader(buf.bytes) THEN FallTo("container")
     ELSE FallTo("ascii")
  /\ DecoderFrame

\* the keyed container: its text is returned, an error that left the branch
\* would end in the outer catch, nothing found falls to the ASCII scan
DecodeContainer ==
  /\ Decoding /\ dpc = "container"
  /\ LET outcome == KeyedContainer(buf)
     IN IF outcome.kind = "text" THEN Return(outcome.text)
        ELSE IF outcome.kind = "error" THEN Return(NoText)
        ELSE FallTo("ascii")
  /\ DecoderFrame

DecodeAscii ==
  /\ Decoding /\ dpc = "ascii"
  /\ IF AsciiScan(buf.bytes) # NoText THEN Return(AsciiScan(buf.bytes))
     ELSE FallTo("utf8")
  /\ DecoderFrame

DecodeUtf8 ==
  /\ Decoding /\ dpc = "utf8"
  /\ IF Utf8Window(buf.bytes) # NoText THEN Return(Utf8Window(buf.bytes))
     ELSE FallTo("utf16")
  /\ DecoderFrame

\* the last strategy: its text, or { text: null }
DecodeUtf16 ==
  /\ Decoding /\ dpc = "utf16"
  /\ Return(Utf16Window(buf.bytes))
  /\ DecoderFrame

(***************************************************************************)
(* processAllVisualizations                                                *)
(***************************************************************************)

\* the run of the loop ended at row st.idx, whose payload it awaits
AwaitDecode(st) ==
  /\ pc' = "await"
  /\ buf' = rows[st.idx].attributedBody
  /\ dpc' = "start"
  /\ dres' = NoText
  /\ dthrown' = FALSE
  /\ UNCHANGED <<heatmapData, responseTimeData, replyLadderData, sortedMessages,
                 monthlyYouToThemTimes, monthlyThemToYouTimes, conversations,
                 wordsPerWeekData, wordsPerWeekMessages, conversationRatioData,
                 sentimentData, allLongestTexts, emojiCountsYou, emojiCountsThem,
                 wrappedStats>>
  /\ reactionCount' = 0
  /\ attributedBodyCount' = 0

\* the aggregates of a list of messages
PublishCharts(messages) ==
  LET sorted == SortByDate(messages)
      recentMessages == RecentMessages(messages, now)
  IN /\ heatmapData' = HeatmapData(messages)
     /\ wordsPerWeekData' = WordsPerWeek(recentMessages)
     /\ wordsPerWeekMessages' = WordsPerWeekMessages(recentMessages)
     /\ conversationRatioData' = ConversationRatio(recentMessages)
     /\ sortedMessages' = sorted
     /\ monthlyYouToThemTimes' = ResponseTimes(sorted).youToThem
     /\ monthlyThemToYouTimes' = ResponseTimes(sorted).themToYou
     /\ responseTimeData' = ResponseTimeData(ResponseTimes(sorted))
     /\ conversations' = Conversations(sorted)
     /\ replyLadderData' = ReplyLadderData(sorted)
     /\ sentimentData' = SentimentTrends(messages)
     /\ allLongestTexts' = SortLongTexts(AllLongestTexts(messages))
     /\ emojiCountsYou' = EmojiCounts(messages, TRUE)
     /\ emojiCountsThem' = EmojiCounts(messages, FALSE)
     /\ wrappedStats' = WrappedStats(messages)

\* a faulty variant: every payload the loop met is reported as undecoded
PublishEveryPayload(st) ==
  /\ reactionCount' = st.reactionsFiltered
  /\ attributedBodyCount' = st.messagesWithAttributedBody
  /\ PublishCharts(st.processedMessages)

\* the loop is over: the counters are published and the aggregates computed
Publish(st) ==
  /\ reactionCount' = st.reactionsFiltered
  /\ attributedBodyCount' = st.messagesWithAttributedBody - st.decodedCount
  /\ PublishCharts(st.processedMessages)

\* the end of the call
Aggregate(st) ==
  /\ pc' = "done"
  /\ UNCHANGED <<buf, dres, dthrown>>
  /\ dpc' = "idle"
  /\ Publish(st)

\* the locals after a run of the loop, and what follows it
Advance(st) ==
  /\ idx' = st.idx
  /\ processedMessages' = st.processedMessages
  /\ reactionsFiltered' = st.reactionsFiltered
  /\ messagesWithAttributedBody' = st.messagesWithAttributedBody
  /\ decodedCount' = st.decodedCount
  /\ IF st.at = "await" THEN AwaitDecode(st) ELSE Aggregate(st)

\* no result set: the charts are emptied; the Wrapped stats are not touched
EmptyCharts ==
  /\ heatmapData' = <<>>
  /\ wordsPerWeekData' = <<>>
  /\ wordsPerWeekMessages' = <<>>
  /\ conversationRatioData' = <<>>
  /\ responseTimeData' = <<>>
  /\ replyLadderData' = NoReplyLadder
  /\ sentimentData' = <<>>
  /\ UNCHANGED <<sortedMessages, monthlyYouToThemTimes, monthlyThemToYouTimes,
                 conversations, allLongestTexts, emojiCountsYou, emojiCountsThem,
                 wrappedStats>>

\* the call, up to the first payload to decode: the counters are reset; no
\* result set ends the run with empty charts
StartRun ==
  /\ pc = "idle"
  /\ UNCHANGED <<rows, filterReactions, now, page, harvest>>
  /\ IF Len(rows) = 0
     THEN /\ pc' = "done"
          /\ reactionCount' = 0
          /\ attributedBodyCount' = 0
          /\ EmptyCharts
          /\ UNCHANGED <<idx, processedMessages, reactionsFiltered,
                         messagesWithAttributedBody, decodedCount, buf, dpc, dres,
                         dthrown>>
     ELSE Advance(LoopFrom(rows, 1, LoopState(1, <<>>, 0, 0, 0, "run"),
                           filterReactions))

\* the decoder answered: the loop takes the answer for row idx and goes on
ResumeRun ==
  /\ pc = "await" /\ dpc = "done"
  /\ UNCHANGED <<rows, filterReactions, now, page, harvest>>
  /\ LET st == LoopState(idx, processedMessages, reactionsFiltered,
                         messagesWithAttributedBody, decodedCount, "run")
     IN Advance(LoopFrom(rows, idx + 1,
                         AfterDecode(st, rows[idx], dres, dthrown, filterReactions),
                         filterReactions))

(***************************************************************************)
(* Inputs: texts, payloads and rows                                        *)
(***************************************************************************)

\* "hello there"
T_hello_there ==
  <<104, 101, 108, 108, 111, 32, 116, 104, 101, 114, 101>>

\* "Hello there"
T_Hello_there ==
  <<72, 101, 108, 108, 111, 32, 116, 104, 101, 114, 101>>

\* "Hello world"
T_Hello_world ==
  <<72, 101, 108, 108, 111, 32, 119, 111, 114, 108, 100>>

\* "hi there u"
T_hi_there_u ==
  <<104, 105, 32, 116, 104, 101, 114, 101, 32, 117>>

\* "Ok, it's 5 o'clock!"
T_clock ==
  <<79, 107, 44, 32, 105, 116, 39, 115, 32, 53, 32, 111, 39, 99, 108, 111, 99, 107, 33>>

\* "hello\tthere you"
T_tab ==
  <<104, 101, 108, 108, 111, 9, 116, 104, 101, 114, 101, 32, 121, 111, 117>>

\* "hi"
T_hi ==
  <<104, 105>>

\* "ok"
T_ok ==
  <<111, 107>>

\* "  "
T_blank ==
  <<32, 32>>

\* "Reacted 'lol' to your message"
T_Reacted ==
  <<82, 101, 97, 99, 116, 101, 100, 32, 39, 108, 111, 108, 39, 32, 116, 111, 32, 121, 111,
    117, 114, 32, 109, 101, 115, 115, 97, 103, 101>>

\* "Liked 'ok'"
T_Liked_ok ==
  <<76, 105, 107, 101, 100, 32, 39, 111, 107, 39>>

\* "Liked 'a\nb'"
T_Liked_lines ==
  <<76, 105, 107, 101, 100, 32, 39, 97, 10, 98, 39>>

\* "it's"
T_its ==
  <<105, 116, 39, 115>>

\* two single quotes with nothing between them
T_two_quotes ==
  <<39, 39>>

\* "don't won't"
T_dont_wont ==
  <<100, 111, 110, 39, 116, 32, 119, 111, 110, 39, 116>>

\* "Loved 'hey you'"
T_Loved ==
  <<76, 111, 118, 101, 100, 32, 39, 104, 101, 121, 32, 121, 111, 117, 39>>

\* "a\nb\nc\n \nd\ne"
T_lines ==
  <<97, 10, 98, 10, 99, 10, 32, 10, 100, 10, 101>>

\* "$null"
T_dollar_null ==
  <<36, 110, 117, 108, 108>>

\* "NSString"
T_NSString ==
  <<78, 83, 83, 116, 114, 105, 110, 103>>

\* four spaces
T_spaces ==
  <<32, 32, 32, 32>>

\* "some note"
T_some_note ==
  <<115, 111, 109, 101, 32, 110, 111, 116, 101>>

\* key names of the parsed values of the inputs
K_top == <<36, 116, 111, 112>>                                  \* $top
K_note == <<110, 111, 116, 101>>                                \* note
K_NSstring == <<78, 83, 46, 115, 116, 114, 105, 110, 103>>      \* NS.string

\* 20 bytes, none printable
Garbage20 ==
  <<1, 2, 3, 4, 5, 6, 7, 8, 9, 11, 12, 14, 15, 16, 17, 18, 19, 20, 21, 22>>

\* 20 bytes, none printable: NUL, white space and bytes above 126
Garbage20High ==
  <<0, 255, 9, 10, 13, 128, 200, 0, 0, 31, 127, 254, 9, 9, 9, 9, 9, 9, 9, 9>>

\* 15 bytes, none printable
Garbage15 ==
  <<1, 2, 3, 4, 5, 6, 7, 8, 9, 11, 12, 14, 15, 16, 17>>

\* a typedstream archive of "Hello there"
TypedStream ==
  <<4, 11, 115, 116, 114, 101, 97, 109, 116, 121, 112, 101, 100, 129, 232, 3, 132, 1, 64,
    132, 132, 132, 18, 78, 83, 65, 116, 116, 114, 105, 98, 117, 116, 101, 100, 83, 116,
    114, 105, 110, 103, 0, 132, 132, 8, 78, 83, 79, 98, 106, 101, 99, 116, 0, 133, 146,
    132, 132, 132, 8, 78, 83, 83, 116, 114, 105, 110, 103, 1, 148, 132, 1, 43, 11, 72, 101,
    108, 108, 111, 32, 116, 104, 101, 114, 101, 134, 132, 2, 105, 73, 1, 11, 146, 132, 132,
    132, 12, 78, 83, 68, 105, 99, 116, 105, 111, 110, 97, 114, 121, 0, 148, 132, 1, 105, 1,
    146, 132, 150, 150, 29, 95, 95, 107, 73, 77, 77, 101, 115, 115, 97, 103, 101, 80, 97,
    114, 116, 65, 116, 116, 114, 105, 98, 117, 116, 101, 78, 97, 109, 101, 134, 146, 132,
    132, 132, 8, 78, 83, 78, 117, 109, 98, 101, 114, 0, 132, 132, 7, 78, 83, 86, 97, 108,
    117, 101, 0, 148, 132, 1, 42, 132, 153, 153, 0, 134, 134, 134>>

\* the first bytes of a binary plist
BplistHeader ==
  <<98, 112, 108, 105, 115, 116, 48, 48, 212, 1, 2, 3>>

\* 20 bytes, none printable, that read "bplist00" once the high bit is masked
HighBitHeader ==
  <<226, 240, 236, 233, 243, 244, 176, 176, 1, 2, 3, 4, 5, 6, 7, 8, 9, 11, 12, 14>>

\* the UTF-16LE encoding of a text
Utf16LE(text) ==
  [i \in 1..(2 * Len(text)) |-> IF i % 2 = 1 THEN text[(i + 1) \div 2] % 256
                                 ELSE text[i \div 2] \div 256]
\* the bytes of an ASCII text
Ascii(text) == text
\* n times the character c
Repeat(c, n) == [i \in 1..n |-> c]

\* the longest text the UTF-16LE strategy reads, and a text one longer
T_longest == <<97, 32>> \o Repeat(98, Utf16MaxBytes \div 2 - 2)
T_too_long == <<97, 32>> \o Repeat(98, Utf16MaxBytes \div 2 - 1)

Throws == [kind |-> "throws"]
Parsed(values) == [kind |-> "parsed", values |-> values]

\* texts behind 20 bytes of garbage, in UTF-16LE
Utf16Texts == {T_hello_there, T_hi_there_u, T_clock, T_tab}
Garbages == {Garbage20, Garbage20High}
Utf16Payload(garbage, text) == Blob(garbage \o Utf16LE(text), Throws)
Utf16Payloads ==
  {Utf16Payload(g, t) : g \in Garbages, t \in Utf16Texts}
  \cup {Utf16Payload(Garbage20, T_longest), Utf16Payload(Garbage20, T_too_long)}

\* payloads that are no binary plist
EmptyPayload == Blob(<<>>, Throws)
TypedStreamPayload == Blob(TypedStream, Throws)
ReactionPayload == Blob(<<1, 43, 15>> \o Ascii(T_Loved) \o <<0, 134>>, Throws)
SplitPayload == Blob(<<73, 32, 100, 111, 110, 0, 116, 32, 107, 110, 111, 119, 0>>, Throws)
Utf8Payload == Blob(Garbage15 \o Ascii(T_lines), Throws)
GarbagePayload == Blob(Garbage15, Throws)
RawPayloads ==
  {EmptyPayload, TypedStreamPayload, ReactionPayload, SplitPayload, Utf8Payload,
   GarbagePayload}

\* binary plists: a keyed archive of "Hello world"; an object with a string
\* but no $objects; an archive whose only string is four spaces; archives
\* without any text; plists the parser rejects; a plist whose root is null;
\* a plist without a root
ArchiveOf(text) ==
  Parsed(<<Obj(<<K_top, K_objects>>,
               <<Obj(<<>>, <<>>),
                 Arr(<<Str(T_dollar_null),
                       Obj(<<K_NSstring, K_class>>, <<Obj(<<K_CFUID>>, <<Num(2)>>),
                                                      Obj(<<K_CFUID>>, <<Num(3)>>)>>),
                       Str(text),
                       Obj(<<K_classes>>, <<Arr(<<Str(T_NSString)>>)>>)>>)>>)>>)
ArchivePayload == Blob(BplistHeader, ArchiveOf(T_Hello_world))
BlankArchivePayload == Blob(BplistHeader, ArchiveOf(T_spaces))
FallbackPayload ==
  Blob(BplistHeader, Parsed(<<Obj(<<K_note, K_top>>, <<Str(T_some_note), Str(T_hi)>>)>>))
NoTextArchivePayload ==
  Blob(BplistHeader, Parsed(<<Obj(<<K_objects>>, <<Arr(<<Str(T_hi), Num(7)>>)>>)>>))
NoRootPayload == Blob(BplistHeader, Parsed(<<>>))
NullRootPayload == Blob(BplistHeader, Parsed(<<Nul>>))
BrokenPayload == Blob(BplistHeader, Throws)
BrokenUtf16Payload == Blob(HighBitHeader \o Utf16LE(T_hello_there), Throws)
BrokenUtf8Payload == Blob(HighBitHeader \o Ascii(T_lines), Throws)
BrokenGarbagePayload == Blob(HighBitHeader, Throws)
ContainerPayloads ==
  {ArchivePayload, BlankArchivePayload, FallbackPayload, NoTextArchivePayload,
   NoRootPayload, NullRootPayload, BrokenPayload,
   BrokenUtf16Payload, BrokenUtf8Payload, BrokenGarbagePayload}

Payloads == Utf16Payloads \cup RawPayloads \cup ContainerPayloads

Row(date, text, isFromMe, attributedBody) ==
  [date |-> date, text |-> text, isFromMe |-> isFromMe,
   attributedBody |-> attributedBody, score |-> 0]

\* the sequences of at most n elements of S
RECURSIVE SeqsOfLength(_, _)
SeqsOfLength(S, n) ==
  IF n = 0 THEN {<<>>}
  ELSE {Append(s, x) : s \in SeqsOfLength(S, n - 1), x \in S}
SeqsUpTo(S, n) == UNION {SeqsOfLength(S, k) : k \in 0..n}

\* One row of each payload: the decoder at work.
DecodeRuns == {<<Row(60, NoText, FALSE, p)>> : p \in Payloads}

\* Rows over a few contents, a minute apart: a text, a blank text, a
\* reaction, a payload with a text, a payload with nothing.
Contents ==
  {[text |-> T_hi, attributedBody |-> NoBlob],
   [text |-> T_blank, attributedBody |-> NoBlob],
   [text |-> T_Liked_ok, attributedBody |-> NoBlob],
   [text |-> NoText, attributedBody |-> SplitPayload],
   [text |-> T_blank, attributedBody |-> GarbagePayload]}
MaxContentRows == 3
ContentRuns ==
  {[i \in 1..Len(cs) |-> Row(i, cs[i].text, i % 2 = 1, cs[i].attributedBody)] :
     cs \in SeqsUpTo(Contents, MaxContentRows)}

\* One row of each text, with or without a payload behind it.
RowTexts ==
  {NoText, T_hi, T_blank, T_Reacted, T_Liked_ok, T_Liked_lines, T_its, T_two_quotes,
   T_dont_wont, T_clock, T_lines}
TextRuns ==
  {<<Row(0, t, TRUE, b)>> :
     t \in RowTexts, b \in {NoBlob, TypedStreamPayload, ReactionPayload, EmptyPayload}}

\* Rows of the text "ok" from either sender: the first at the epoch, each
\* next one 0 minutes, 2 hours, 24 hours or 168 hours after the one before.
Gaps == {0, 120, 24 * 60, 168 * 60}
Steps == [gap : Gaps, isFromMe : BOOLEAN]
RECURSIVE DateAfter(_, _)
DateAfter(steps, i) == IF i = 0 THEN 0 ELSE DateAfter(steps, i - 1) + steps[i].gap
MaxRows == 4
TimedRuns ==
  {[i \in 1..Len(steps) |-> Row(DateAfter(steps, i), T_ok, steps[i].isFromMe, NoBlob)] :
     steps \in {s \in SeqsUpTo(Steps, MaxRows) : s = <<>> \/ s[1].gap = 0}}

\* Rows written out: (date, isFromMe) of each, the text "ok"
Timed(pairs) == [i \in 1..Len(pairs) |-> Row(pairs[i][1], T_ok, pairs[i][2], NoBlob)]
Jan31 == 30 * 24 * 60
Scenarios ==
  { \* A(them, t0), B(you, t0 + 2h)
    Timed(<<<<600, FALSE>>, <<720, TRUE>>>>),
    \* three answers of mine (60, 180 and 30 minutes) and two of theirs
    Timed(<<<<0, FALSE>>, <<60, TRUE>>, <<65, FALSE>>, <<245, TRUE>>, <<250, FALSE>>,
            <<280, TRUE>>>>),
    \* an answer after midnight of the last day of January, and a message
    \* 168 hours after the last one
    Timed(<<<<Jan31 + 1380, FALSE>>, <<Jan31 + 1500, TRUE>>, <<Jan31 + 1501, TRUE>>,
            <<Jan31 + 1620, FALSE>>, <<Jan31 + 1620 + 168 * 60, TRUE>>>>),
    \* a minute less than 24 hours and than 168 hours, double texts
    Timed(<<<<0, TRUE>>, <<4, TRUE>>, <<9, TRUE>>, <<1448, FALSE>>, <<11527, TRUE>>>>),
    \* the last day of February 2004 and the first of 2005
    Timed(<<<<1661760 + 1430, TRUE>>, <<1661760 + 1450, FALSE>>, <<2103840, TRUE>>,
            <<2103840 + 10, FALSE>>>>),
    \* double texts of both senders, an answer a minute later, and two
    \* messages of mine exactly 5 minutes apart
    Timed(<<<<0, FALSE>>, <<3, FALSE>>, <<4, TRUE>>, <<8, TRUE>>, <<13, TRUE>>,
            <<18, FALSE>>>>) }

\* Two rows on any two of the first 14 days of 2001, at 10:00 and at 18:00,
\* the second of one word or of none: a message on every day of the week,
\* in one week or in two.
\* "?!"
T_marks == <<63, 33>>
WeekdayRuns ==
  {<<Row(d1 * 1440 + 600, T_ok, TRUE, NoBlob), Row(d2 * 1440 + 1080, t, FALSE, NoBlob)>> :
     d1 \in 0..13, d2 \in 0..13, t \in {T_hi, T_marks}}

\* The clock of a run.  July 1, 2001 at 0:00: the window of 6 months opens
\* at the epoch, the date of the first rows.
EarlyClock == MakeDate(2001, 6, 1, 0)
\* July 2, 2001 at 0:00: the window opens a day after the epoch, at the
\* minute of a row that comes 24 hours after the first.
TimedClock == MakeDate(2001, 6, 2, 0)
\* February 28 and August 31, 2001 at 12:00 (6 months back is February 31,
\* which is March 3), March 1, 2004, and July 2, 2005.
ScenarioClocks ==
  {MakeDate(2001, 1, 28, 720), MakeDate(2001, 7, 31, 720), MakeDate(2004, 2, 1, 60),
   MakeDate(2005, 6, 2, 0)}

\* The sentiment library is outside the repository: a row carries, beside
\* its text, the score the library gives the text.  "good" (3), "bad" (-3),
\* "good good good" (9)
T_good == <<103, 111, 111, 100>>
T_bad == <<98, 97, 100>>
T_good3 == T_good \o <<32>> \o T_good \o <<32>> \o T_good
Moods ==
  {[text |-> T_good, score |-> 3], [text |-> T_bad, score |-> -3],
   [text |-> T_good3, score |-> 9]}
Feelings == [mood : Moods, isFromMe : BOOLEAN]
\* Rows with a score, the first two in the first week of 2001 and the rest
\* in the second.
MaxSentimentRows == 3
SentimentRuns ==
  {[i \in 1..Len(fs) |->
      [date |-> (IF i <= 2 THEN 0 ELSE 7 * 1440) + i, text |-> fs[i].mood.text,
       isFromMe |-> fs[i].isFromMe, attributedBody |-> NoBlob,
       score |-> fs[i].mood.score]] :
     fs \in SeqsUpTo(Feelings, MaxSentimentRows)}

\* Texts with emojis.  "I love you" and a heart with its variation selector
E_love == <<73, 32, 108, 111, 118, 101, 32, 121, 111, 117, 32>> \o FromCodePoints(<<10084, 65039>>)
\* a thumb with a skin tone
E_thumb == FromCodePoints(<<128077, 127997>>)
\* a family: man, joiner, woman, joiner, girl
E_family == FromCodePoints(<<128104, 8205, 128105, 8205, 128103>>)
\* a flag of two regional indicators, and a third indicator after it
E_flag == FromCodePoints(<<127482, 127480, 127482>>)
\* the female sign alone
E_female == FromCodePoints(<<9792>>)
\* a skin tone alone
E_swatch == FromCodePoints(<<127997>>)
\* a runner, a joiner, the female sign and its variation selector
E_runner == FromCodePoints(<<127939, 8205, 9792, 65039>>)
\* two hearts, a space, a bare thumb, "ok"
E_mixed == FromCodePoints(<<10084, 65039, 10084, 65039, 32, 128077>>) \o T_ok
EmojiTexts == {E_love, E_thumb, E_family, E_flag, E_female, E_swatch, E_runner, E_mixed}
MaxEmojiRows == 2
EmojiRuns ==
  {[i \in 1..Len(es) |-> Row(i, es[i].text, es[i].isFromMe, NoBlob)] :
     es \in SeqsUpTo([text : EmojiTexts, isFromMe : BOOLEAN], MaxEmojiRows)}

\* Rows of texts of many lengths, a minute apart, from either sender in
\* turn: the lengths rise, fall, or repeat.
MaxLongRows == 12
LongRuns ==
  {[i \in 1..n |-> Row(i, Repeat(97, lengths[i]), i % 2 = 1, NoBlob)] :
     n \in (LongestTextsKept - 1)..MaxLongRows,
     lengths \in {[i \in 1..MaxLongRows |-> i], [i \in 1..MaxLongRows |-> MaxLongRows + 1 - i],
                  [i \in 1..MaxLongRows |-> 1 + (i % 3)]}}

\* Databases for a session of the page.  A database is its message table, in
\* the order of the dates, each row with its handle_id; exec throws on the
\* query for a contact of the set unreadable.
Database(messages, unreadable) ==
  [isNull |-> FALSE, messages |-> messages, unreadable |-> unreadable]
Of(handle, row) == [handle |-> handle, row |-> row]
\* contact 1: "hi" and a keyed archive of "Hello world"; contact 2:
\* "Liked 'ok'" and "ok", no payload to decode
FamilyDb ==
  Database(<<Of(1, Row(0, T_hi, TRUE, NoBlob)),
             Of(1, Row(60, NoText, FALSE, ArchivePayload)),
             Of(2, Row(1500, T_Liked_ok, FALSE, NoBlob)),
             Of(2, Row(1560, T_ok, TRUE, NoBlob))>>, {})
\* contact 1: a payload without text and "ok"; the rows of contact 2 cannot
\* be read, so neither can the rows of all chats
DamagedDb ==
  Database(<<Of(1, Row(120, NoText, TRUE, GarbagePayload)),
             Of(1, Row(180, T_ok, FALSE, NoBlob)),
             Of(2, Row(3000, T_hi, TRUE, NoBlob))>>, {AllChats, 2})
\* a database without a contact
EmptyDb == Database(<<>>, {})
Databases == {FamilyDb, DamagedDb, EmptyDb}

\* the messages of generateSampleData, as processSampleData holds them
SampleMessages ==
  <<Message(Row(600, T_hi, TRUE, NoBlob), T_hi),
    Message(Row(660, T_Hello_there, FALSE, NoBlob), T_Hello_there)>>

\* Two rows around the turn of the year 2001: one of December 20, 30 or 31,
\* one of January 1, 5 or 10, 2002; the clock is February 1, 2002, so both
\* are in the window of 6 months.
YearEndClock == MakeDate(2002, 1, 1, 0)
YearEndRuns ==
  {<<Row(MakeDate(2001, 11, d1, 600), T_ok, TRUE, NoBlob),
     Row(MakeDate(2002, 0, d2, 1080), T_hi, FALSE, NoBlob)>> :
     d1 \in {20, 30, 31}, d2 \in {1, 5, 10}}

(***************************************************************************)
(* The specification                                                       *)
(***************************************************************************)

\* what the page starts a run with: the rows of the query, the filter, and
\* the clock
Runs ==
  {[rows |-> r, filterReactions |-> f, now |-> EarlyClock] :
     r \in ContentRuns \cup TextRuns, f \in BOOLEAN}
  \cup {[rows |-> r, filterReactions |-> TRUE, now |-> EarlyClock] :
          r \in DecodeRuns \cup WeekdayRuns \cup SentimentRuns \cup EmojiRuns \cup LongRuns}
  \cup {[rows |-> r, filterReactions |-> TRUE, now |-> TimedClock] : r \in TimedRuns}
  \cup {[rows |-> r, filterReactions |-> TRUE, now |-> YearEndClock] : r \in YearEndRuns}
  \cup {run \in [rows : Scenarios, filterReactions : {TRUE}, now : ScenarioClocks] :
          \A i \in 1..Len(run.rows) : run.rows[i].date <= run.now}

Init ==
  /\ \E run \in Runs :
       rows = run.rows /\ filterReactions = run.filterReactions /\ now = run.now
  /\ pc = "idle"
  /\ idx = 0
  /\ processedMessages = <<>>
  /\ reactionsFiltered = 0
  /\ messagesWithAttributedBody = 0
  /\ decodedCount = 0
  /\ buf = NoBlob
  /\ dpc = "idle"
  /\ dres = NoText
  /\ dthrown = FALSE
  /\ reactionCount = 0
  /\ attributedBodyCount = 0
  /\ heatmapData = <<>>
  /\ responseTimeData = <<>>
  /\ replyLadderData = NoReplyLadder
  /\ sortedMessages = <<>>
  /\ monthlyYouToThemTimes = EmptyMap
  /\ monthlyThemToYouTimes = EmptyMap
  /\ conversations = <<>>
  /\ wordsPerWeekData = <<>>
  /\ wordsPerWeekMessages = <<>>
  /\ conversationRatioData = <<>>
  /\ sentimentData = <<>>
  /\ allLongestTexts = <<>>
  /\ emojiCountsYou = <<>>
  /\ emojiCountsThem = <<>>
  /\ wrappedStats = NoWrappedStats
  /\ screen = "dashboard"
  /\ db = NoDb
  /\ selectedContact = 0
  /\ processing = FALSE
  /\ error = NoError
  /\ isSampleData = FALSE
  /\ inflight = <<>>
  /\ NoHarvest

Next ==
  \/ StartRun
  \/ DecodeStart
  \/ DecodeContainer
  \/ DecodeAscii
  \/ DecodeUtf8
  \/ DecodeUtf16
  \/ ResumeRun

Spec == Init /\ [][Next]_vars

(***************************************************************************)
(* The page: its handlers around processAllVisualizations                  *)
(***************************************************************************)
\* In Spec the page stands still around one call.  In Session the handlers
\* of the page call processAllVisualizations; a call that reaches
\* await decodeAttributedBody waits in inflight with its locals and with
\* what it captured of the render it was called from, and the page handles
\* events meanwhile.  The locals of Spec stand still in Session.

\* the locals of the one call of Spec
locals == <<rows, pc, idx, processedMessages, reactionsFiltered,
            messagesWithAttributedBody, decodedCount, buf, dpc, dres, dthrown>>
\* what setReactionCount and setAttributedBodyCount set
counters == <<reactionCount, attributedBodyCount>>
\* what the aggregates of a call set
charts == <<heatmapData, wordsPerWeekData, wordsPerWeekMessages, conversationRatioData,
            responseTimeData, replyLadderData, sentimentData, sortedMessages,
            monthlyYouToThemTimes, monthlyThemToYouTimes, conversations,
            allLongestTexts, emojiCountsYou, emojiCountsThem, wrappedStats>>

\* database.exec(query): the rows of the contact, of all contacts for null
Query(database, contactId) ==
  LET ix == SelectSeq([i \in 1..Len(database.messages) |-> i],
                      LAMBDA i : contactId = AllChats
                                 \/ database.messages[i].handle = contactId)
  IN [k \in 1..Len(ix) |-> database.messages[ix[k]].row]
\* the contacts query: the handles with a message
Contacts(database) ==
  {database.messages[i].handle : i \in 1..Len(database.messages)}

\* decodeAttributedBody as a whole: what its steps return
DecodeAttributedBody(blob) ==
  IF Len(blob.bytes) = 0 THEN NoText
  ELSE IF HasMagicHeader(blob.bytes) /\ KeyedContainer(blob).kind = "text"
       THEN KeyedContainer(blob).text
  ELSE IF AsciiScan(blob.bytes) # NoText THEN AsciiScan(blob.bytes)
  ELSE IF Utf8Window(blob.bytes) # NoText THEN Utf8Window(blob.bytes)
  ELSE Utf16Window(blob.bytes)

\* a call from its start to its first await, or to its end
Call(database, contactId, filter) ==
  IF contactId \in database.unreadable
  THEN [kind |-> "error", rows |-> <<>>, st |-> LoopState(0, <<>>, 0, 0, 0, "end")]
  ELSE LET messages == Query(database, contactId)
           st == LoopFrom(messages, 1, LoopState(1, <<>>, 0, 0, 0, "run"), filter)
       IN IF Len(messages) = 0
          THEN [kind |-> "empty", rows |-> <<>>, st |-> LoopState(0, <<>>, 0, 0, 0, "end")]
          ELSE [kind |-> st.at, rows |-> messages, st |-> st]

\* the call as it waits: its locals, its arguments, the filterReactions of
\* the render it was called from, and who awaits it
Waiting(outcome, contactId, filter, caller) ==
  [rows |-> outcome.rows, st |-> outcome.st, contactId |-> contactId,
   filterReactions |-> filter, caller |-> caller]

\* what a call sets up to its first await or its end: the counters are
\* reset first; the catch sets the error
Settle(outcome, errorBefore) ==
  /\ error' = IF outcome.kind = "error" THEN ProcessingError ELSE errorBefore
  /\ IF outcome.kind = "end" THEN Publish(outcome.st)
     ELSE IF outcome.kind = "empty"
          THEN reactionCount' = 0 /\ attributedBodyCount' = 0 /\ EmptyCharts
     ELSE reactionCount' = 0 /\ attributedBodyCount' = 0 /\ UNCHANGED charts

\* the calls in flight at once are bounded in the model
MaxInFlight == 2

\* handleFileUpload, from the bytes of the file on
HandleFileUpload(database) ==
  /\ screen = "upload"
  /\ Len(inflight) < MaxInFlight
  /\ IF Contacts(database) = {}
     THEN /\ error' = NoContactsError
          /\ UNCHANGED <<db, processing, screen, inflight, counters, charts>>
     ELSE \E outcome \in {Call(database, AllChats, filterReactions)} :
             /\ db' = database
             /\ Settle(outcome, NoError)
             /\ processing' = (outcome.kind = "await")
             /\ screen' = IF outcome.kind = "await" THEN "upload" ELSE "dashboard"
             /\ inflight' = IF outcome.kind = "await"
                            THEN Append(inflight, Waiting(outcome, AllChats,
                                                          filterReactions, "upload"))
                            ELSE inflight
  /\ UNCHANGED <<selectedContact, isSampleData, filterReactions, now, locals, harvest>>

\* handleContactSelect(contact), contact a contact of the list or null
HandleContactSelect(contactId) ==
  /\ screen = "dashboard" /\ ~isSampleData
  /\ Len(inflight) < MaxInFlight
  /\ selectedContact' = contactId
  /\ IF db.isNull
     THEN UNCHANGED <<error, processing, inflight, counters, charts>>
     ELSE \E outcome \in {Call(db, contactId, filterReactions)} :
             /\ Settle(outcome, error)
             /\ processing' = (outcome.kind = "await")
             /\ inflight' = IF outcome.kind = "await"
                            THEN Append(inflight, Waiting(outcome, contactId,
                                                          filterReactions, "select"))
                            ELSE inflight
  /\ UNCHANGED <<screen, db, isSampleData, filterReactions, now, locals, harvest>>

\* onChange of the checkbox "Filter reaction messages": the call is the
\* processAllVisualizations of the render the handler belongs to, which
\* reads the filterReactions of that render; it is not awaited
ToggleFilterReactions ==
  /\ screen = "dashboard"
  /\ db.isNull \/ Len(inflight) < MaxInFlight
  /\ filterReactions' = ~filterReactions
  /\ IF db.isNull
     THEN UNCHANGED <<error, processing, inflight, counters, charts>>
     ELSE \E outcome \in {Call(db, selectedContact, filterReactions)} :
             /\ Settle(outcome, error)
             /\ processing' = FALSE
             /\ inflight' = IF outcome.kind = "await"
                            THEN Append(inflight, Waiting(outcome, selectedContact,
                                                          filterReactions, "toggle"))
                            ELSE inflight
  /\ UNCHANGED <<screen, db, selectedContact, isSampleData, now, locals, harvest>>

\* onClick of "Load Different Database" / "Load Your Database"
LoadDifferentDatabase ==
  /\ screen = "dashboard"
  /\ screen' = "upload"
  /\ db' = NoDb
  /\ selectedContact' = AllChats
  /\ EmptyCharts
  /\ isSampleData' = FALSE
  /\ UNCHANGED <<counters, processing, error, inflight, filterReactions, now, locals, harvest>>

\* processSampleData: it has no await
ProcessSampleData ==
  /\ screen = "upload" /\ ~processing
  /\ error' = NoError
  /\ selectedContact' = AllChats
  /\ isSampleData' = TRUE
  /\ PublishCharts(SampleMessages)
  /\ screen' = "dashboard"
  /\ processing' = FALSE
  /\ UNCHANGED <<counters, db, inflight, filterReactions, now, locals, harvest>>

Without(calls, k) == SubSeq(calls, 1, k - 1) \o SubSeq(calls, k + 1, Len(calls))

\* a call in flight gets the answer of decodeAttributedBody and goes on to
\* its next await or to its end, where whoever awaits it goes on
ResumeCall(k) ==
  /\ k \in 1..Len(inflight)
  /\ LET call == inflight[k]
         row == call.rows[call.st.idx]
     IN \E st \in {LoopFrom(call.rows, call.st.idx + 1,
                             AfterDecode(call.st, row,
                                         DecodeAttributedBody(row.attributedBody),
                                         FALSE, call.filterReactions),
                             call.filterReactions)} :
          IF st.at = "await"
          THEN /\ inflight' = [inflight EXCEPT ![k].st = st]
               /\ UNCHANGED <<counters, charts, processing, screen>>
          ELSE /\ inflight' = Without(inflight, k)
               /\ Publish(st)
               /\ processing' = IF call.caller = "toggle" THEN processing ELSE FALSE
               /\ screen' = IF call.caller = "upload" THEN "dashboard" ELSE screen
  /\ UNCHANGED <<db, selectedContact, error, isSampleData, filterReactions, now, locals, harvest>>

SessionInit ==
  /\ rows = <<>> /\ filterReactions = TRUE /\ now = EarlyClock
  /\ pc = "idle"
  /\ idx = 0
  /\ processedMessages = <<>>
  /\ reactionsFiltered = 0
  /\ messagesWithAttributedBody = 0
  /\ decodedCount = 0
  /\ buf = NoBlob
  /\ dpc = "idle"
  /\ dres = NoText
  /\ dthrown = FALSE
  /\ reactionCount = 0
  /\ attributedBodyCount = 0
  /\ heatmapData = <<>>
  /\ responseTimeData = <<>>
  /\ replyLadderData = NoReplyLadder
  /\ sortedMessages = <<>>
  /\ monthlyYouToThemTimes = EmptyMap
  /\ monthlyThemToYouTimes = EmptyMap
  /\ conversations = <<>>
  /\ wordsPerWeekData = <<>>
  /\ wordsPerWeekMessages = <<>>
  /\ conversationRatioData = <<>>
  /\ sentimentData = <<>>
  /\ allLongestTexts = <<>>
  /\ emojiCountsYou = <<>>
  /\ emojiCountsThem = <<>>
  /\ wrappedStats = NoWrappedStats
  /\ screen = "upload"
  /\ db = NoDb
  /\ selectedContact = AllChats
  /\ processing = FALSE
  /\ error = NoError
  /\ isSampleData = FALSE
  /\ inflight = <<>>
  /\ NoHarvest

SessionNext ==
  \/ \E database \in Databases : HandleFileUpload(database)
  \/ \E contactId \in {AllChats} \cup Contacts(db) : HandleContactSelect(contactId)
  \/ ToggleFilterReactions
  \/ LoadDifferentDatabase
  \/ ProcessSampleData
  \/ \E k \in 1..MaxInFlight : ResumeCall(k)

Session == SessionInit /\ [][SessionNext]_vars

(***************************************************************************)
(* The string harvest taken by itself: searchObject and findAllStrings     *)
(***************************************************************************)
\* The operators SearchObject and FindAllStrings compute the harvest of a
\* value that is a tree.  Here the container is a graph: its objects are
\* numbered, object 1 is the one the function is first called on, and an
\* array or an object holds the numbers of its items, so that an object can
\* hold itself or an object above it.  Each call of the function is a frame
\* of the call stack: i = 0 when the call has not looked at its argument
\* yet, else the index of the next item of its forEach.

\* the frames the engine has room for; one more call is a RangeError
MaxCallStack == 5

\* the items the forEach of a call walks: the elements of an array, the
\* values of the keys of an object that the function does not skip
ItemsOf(o) ==
  IF o.t = "array" THEN o.a
  ELSE IF o.t = "object"
       THEN IF fn = "searchObject"
            THEN KeptValues(o, LAMBDA key : key # K_class /\ key # K_classes)
            ELSE KeptValues(o, LAMBDA key : ~StartsWith(key, <<36>>) \/ key = K_objects)
  ELSE <<>>

Top == callStack[Len(callStack)]
Pop == SubSeq(callStack, 1, Len(callStack) - 1)
\* the call on top returns; the harvest is over when it was the first call
ReturnFromCall ==
  /\ callStack' = Pop
  /\ hpc' = IF Len(callStack) = 1 THEN "returned" ELSE "run"

\* the function looks at its argument: a string that is not empty is
\* pushed, an array or an object is walked, anything else is left alone
HarvestVisit ==
  /\ hpc = "run" /\ Top.i = 0
  /\ visits' = [visits EXCEPT ![Top.node] = @ + 1]
  /\ IF IsText(graph[Top.node])
     THEN harvested' = Append(harvested, graph[Top.node].s) /\ ReturnFromCall
     ELSE IF IsObjectLike(graph[Top.node])
     THEN /\ callStack' = [callStack EXCEPT ![Len(callStack)].i = 1]
          /\ UNCHANGED <<harvested, hpc>>
     ELSE UNCHANGED harvested /\ ReturnFromCall
  /\ UNCHANGED <<graph, fn>>

\* the forEach calls the function on the next item; without room for the
\* frame the engine throws a RangeError, which unwinds every call
HarvestDescend ==
  /\ hpc = "run" /\ Top.i >= 1 /\ Top.i <= Len(ItemsOf(graph[Top.node]))
  /\ IF Len(callStack) >= MaxCallStack
     THEN callStack' = <<>> /\ hpc' = "overflow"
     ELSE /\ callStack' = Append([callStack EXCEPT ![Len(callStack)].i = @ + 1],
                                 [node |-> ItemsOf(graph[Top.node])[Top.i], i |-> 0])
          /\ UNCHANGED hpc
  /\ UNCHANGED <<graph, fn, harvested, visits>>

\* the forEach is through: the call returns
HarvestReturn ==
  /\ hpc = "run" /\ Top.i > Len(ItemsOf(graph[Top.node]))
  /\ ReturnFromCall
  /\ UNCHANGED <<graph, fn, harvested, visits>>

\* what the keyed-container strategy gets of the harvest: the strings when
\* the first call returned, nothing when the RangeError reached the catch
HarvestCandidates == IF hpc = "returned" THEN harvested ELSE <<>>

\* Containers of three objects.  Object 1 is an array or an object of two
\* items, object 2 a string or an array of one item, object 3 a string, a
\* number or an object of one item; an item is any of the three objects.
Graphs ==
  {<<o1, o2, o3>> :
     o1 \in {Arr(<<a, b>>) : a \in 1..3, b \in 1..3}
            \cup {Obj(<<K_note, K_class>>, <<a, b>>) : a \in 2..3, b \in 2..3}
            \cup {Obj(<<K_objects, K_top>>, <<a, b>>) : a \in 2..3, b \in 2..3},
     o2 \in {Str(T_hi), Str(T_Hello_there)} \cup {Arr(<<r>>) : r \in 1..3},
     o3 \in {Str(T_Hello_world), Num(7)} \cup {Obj(<<K_note>>, <<r>>) : r \in 1..3}}

HarvestInit ==
  /\ rows = <<>> /\ filterReactions = TRUE /\ now = EarlyClock
  /\ pc = "idle"
  /\ idx = 0
  /\ processedMessages = <<>>
  /\ reactionsFiltered = 0
  /\ messagesWithAttributedBody = 0
  /\ decodedCount = 0
  /\ buf = NoBlob
  /\ dpc = "idle"
  /\ dres = NoText
  /\ dthrown = FALSE
  /\ reactionCount = 0
  /\ attributedBodyCount = 0
  /\ heatmapData = <<>>
  /\ responseTimeData = <<>>
  /\ replyLadderData = NoReplyLadder
  /\ sortedMessages = <<>>
  /\ monthlyYouToThemTimes = EmptyMap
  /\ monthlyThemToYouTimes = EmptyMap
  /\ conversations = <<>>
  /\ wordsPerWeekData = <<>>
  /\ wordsPerWeekMessages = <<>>
  /\ conversationRatioData = <<>>
  /\ sentimentData = <<>>
  /\ allLongestTexts = <<>>
  /\ emojiCountsYou = <<>>
  /\ emojiCountsThem = <<>>
  /\ wrappedStats = NoWrappedStats
  /\ screen = "upload"
  /\ db = NoDb
  /\ selectedContact = AllChats
  /\ processing = FALSE
  /\ error = NoError
  /\ isSampleData = FALSE
  /\ inflight = <<>>
  /\ graph \in Graphs
  /\ fn \in {"searchObject", "findAllStrings"}
  /\ callStack = <<[node |-> 1, i |-> 0]>>
  /\ harvested = <<>>
  /\ visits = [n \in 1..3 |-> 0]
  /\ hpc = "run"

HarvestNext ==
  \/ (HarvestVisit /\ UNCHANGED <<locals, counters, charts, page, filterReactions, now>>)
  \/ (HarvestDescend /\ UNCHANGED <<locals, counters, charts, page, filterReactions, now>>)
  \/ (HarvestReturn /\ UNCHANGED <<locals, counters, charts, page, filterReactions, now>>)

Harvest == HarvestInit /\ [][HarvestNext]_vars

(***************************************************************************)
(* Properties of the decoder                                               *)
(***************************************************************************)

\* what the keyed container yields on a payload; it is a strategy of the
\* payloads with the magic header
ContainerCandidate(p) ==
  IF HasMagicHeader(p.bytes) THEN KeyedContainer(p).text ELSE NoText
\* the first text the raw strategies yield, in the order ASCII scan, UTF-8
\* window, UTF-16LE window; NoText when none yields one
RawText(bytes) ==
  IF AsciiScan(bytes) # NoText THEN AsciiScan(bytes)
  ELSE IF Utf8Window(bytes) # NoText THEN Utf8Window(bytes)
  ELSE Utf16Window(bytes)
\* the first text of the whole ladder
LadderText(p) ==
  IF ContainerCandidate(p) # NoText THEN ContainerCandidate(p) ELSE RawText(p.bytes)

Returned == pc = "await" /\ dpc = "done"

\* C1: the strategies are tried in the order keyed container, ASCII scan,
\* UTF-8 window, UTF-16LE window: the decoder is at a strategy only when
\* every strategy before it yielded nothing, and the text it returns is the
\* candidate of the first strategy, in that order, that yields one.
C1_LadderOrder ==
  /\ (Decoding /\ dpc = "container") => HasMagicHeader(buf.bytes)
  /\ (Decoding /\ dpc \in {"ascii", "utf8", "utf16"}) => ContainerCandidate(buf) = NoText
  /\ (Decoding /\ dpc \in {"utf8", "utf16"}) => AsciiScan(buf.bytes) = NoText
  /\ (Decoding /\ dpc = "utf16") => Utf8Window(buf.bytes) = NoText
  /\ Returned => dres = LadderText(buf)

\* C1: the keyed container's text was returned for a payload on which the
\* ASCII scan yields another text
C1_Witness ==
  /\ Returned
  /\ HasMagicHeader(buf.bytes)
  /\ dres = KeyedContainer(buf).text
  /\ AsciiScan(buf.bytes) # NoText
  /\ AsciiScan(buf.bytes) # dres

\* C2: when the payload has the magic header and the parse or the walk of
\* the parsed values raises an error, no error reaches the caller and the
\* decoder returns what the ASCII scan, then the UTF-8 window, then the
\* UTF-16LE window yield on the same payload.
C2_ParseErrorFallsThrough ==
  (Decoding /\ HasMagicHeader(buf.bytes) /\ ParseAndSearch(buf).kind = "error")
    => /\ ~dthrown
       /\ dpc = "done" => dres = RawText(buf.bytes)

\* C2: the walk of a parsed plist raised an error (its root is null) and the
\* decoder returned the text of a later strategy
C2_Witness ==
  /\ Returned
  /\ HasMagicHeader(buf.bytes)
  /\ buf.plist.kind = "parsed"
  /\ ParseAndSearch(buf).kind = "error"
  /\ dres # NoText
  /\ ~dthrown

\* the number of garbage bytes before the text of C3
GarbageLength == 20
\* the text a payload holds in UTF-16LE behind the garbage
TextBehindGarbage(bytes) ==
  [k \in 1..((Len(bytes) - GarbageLength) \div 2) |->
     bytes[GarbageLength + 2 * k - 1] + 256 * bytes[GarbageLength + 2 * k]]
\* the payload is 20 bytes of garbage, none printable and not the magic
\* header, and then the UTF-16LE encoding of a text
IsGarbageThenUtf16(bytes) ==
  /\ Len(bytes) >= GarbageLength
  /\ (Len(bytes) - GarbageLength) % 2 = 0
  /\ \A i \in 1..GarbageLength : ~IsPrintable(bytes[i])
  /\ ~HasMagicHeader(bytes)
\* an ASCII text of 10 characters or more, with a space and a lowercase
\* letter, that neither begins nor ends with a space
IsPlainText(text) ==
  /\ Len(text) >= 10
  /\ \A i \in 1..Len(text) : text[i] < 128
  /\ HasChar(text, 32)
  /\ \E i \in 1..Len(text) : IsLower(text[i])
  /\ text[1] # 32 /\ text[Len(text)] # 32
\* every character is printable and the text is no longer than the
\* UTF-16LE strategy reads
IsShortPrintable(text) ==
  /\ \A i \in 1..Len(text) : IsPrintable(text[i])
  /\ 2 * Len(text) <= Utf16MaxBytes
\* the first three strategies yield nothing and the decoder returns the text
ReturnsTextBehindGarbage ==
  /\ dpc # "container"
  /\ AsciiScan(buf.bytes) = NoText
  /\ Utf8Window(buf.bytes) = NoText
  /\ dpc = "done" => dres = TextBehindGarbage(buf.bytes)

Finished == pc = "done" /\ Len(rows) > 0

\* the text the loop resolves for a row: the text of the row when it is not
\* blank, else the text decoded from the payload, when there is one
ResolvedText(row) ==
  IF ~IsBlank(row.text) THEN row.text
  ELSE IF row.attributedBody.present /\ Len(row.attributedBody.bytes) > 0
       THEN LadderText(row.attributedBody)
  ELSE NoText

\* a pair of single quotes with a character or more between them
HasQuotedPart(text) ==
  \E i \in 1..Len(text) : \E j \in (i + 2)..Len(text) : text[i] = 39 /\ text[j] = 39

\* the rows 1..n whose resolved text Keep accepts, in the order of the rows
KeptRows(n, Keep(_)) ==
  SelectSeq([i \in 1..n |-> i], LAMBDA i : Keep(ResolvedText(rows[i])))
Texts(messages) == [k \in 1..Len(messages) |-> messages[k].text]

\* C4: each row is resolved to its own text when that is not blank and to
\* the text decoded from its payload otherwise; a row whose text is still
\* blank is dropped; so the text of every normalized message is not blank.
\* (The filter off: no row is dropped for another reason.)
C4_TextResolved ==
  /\ \A k \in 1..Len(processedMessages) : ~IsBlank(processedMessages[k].text)
  /\ (Finished /\ ~filterReactions) =>
       LET kept == KeptRows(Len(rows), LAMBDA text : ~IsBlank(text))
       IN Texts(processedMessages) = [k \in 1..Len(kept) |-> ResolvedText(rows[kept[k]])]

\* C4: a run that kept a row for its own text, kept a row for the text of
\* its payload and dropped a row left with a blank text
C4_Witness ==
  /\ Finished /\ ~filterReactions
  /\ Len(rows) = 3
  /\ Len(processedMessages) = 2
  /\ decodedCount = 1
  /\ \E i \in 1..3 : ~IsBlank(rows[i].text) /\ processedMessages[1].text = rows[i].text
  /\ \E i \in 1..3 : IsBlank(rows[i].text) /\ IsBlank(ResolvedText(rows[i]))

\* C5 as stated: with the filter on, a row is dropped, and counted once,
\* exactly when its resolved text holds a part between two single quotes;
\* with the filter off no row is dropped for it, the text is kept as it is
\* with its word count, and the count of reactions is 0.
C5_DroppedIffQuoted ==
  Finished =>
    LET survivors == KeptRows(Len(rows), LAMBDA text :
                       ~IsBlank(text) /\ ~(filterReactions /\ HasQuotedPart(text)))
        reactions == KeptRows(Len(rows), LAMBDA text : ~IsBlank(text) /\ HasQuotedPart(text))
    IN /\ Texts(processedMessages) =
            [k \in 1..Len(survivors) |-> ResolvedText(rows[survivors[k]])]
       /\ \A k \in 1..Len(processedMessages) :
            processedMessages[k].wordCount = WordCount(processedMessages[k].text)
       /\ reactionCount = IF filterReactions THEN Len(reactions) ELSE 0

\* a message of the list is the normalized form of a row
IsMessageOf(message, row) ==
  /\ message.date = row.date
  /\ message.isFromMe = row.isFromMe
  /\ message.text = ResolvedText(row)
\* messages k.. are messages of rows i.. in the order of the rows
RECURSIVE EmbedsFrom(_, _)
EmbedsFrom(k, i) ==
  IF k > Len(processedMessages) THEN TRUE
  ELSE IF i > Len(rows) THEN FALSE
  ELSE IF IsMessageOf(processedMessages[k], rows[i]) THEN EmbedsFrom(k + 1, i + 1)
  ELSE EmbedsFrom(k, i + 1)

\* C6: the normalized messages are, at every moment of the run and however
\* many steps each decode takes, messages of a subsequence of the rows in
\* the order of the rows.
C6_OrderPreserved == EmbedsFrom(1, 1)

\* C6: the first row of three was kept after its payload was decoded, the
\* second was dropped and the third was kept for its own text
C6_Witness ==
  /\ Finished
  /\ Len(rows) = 3
  /\ NeedsDecode(rows[1]) /\ ~NeedsDecode(rows[3])
  /\ Len(processedMessages) = 2
  /\ processedMessages[1].date = rows[1].date
  /\ processedMessages[2].date = rows[3].date

(***************************************************************************)
(* Properties of the aggregates                                            *)
(***************************************************************************)

RECURSIVE Concat(_)
Concat(lists) == IF lists = <<>> THEN <<>> ELSE Head(lists) \o Concat(Tail(lists))

DayMinutes == 24 * 60

\* C7: the conversations are a partition of the time-sorted messages: in
\* order they give back the sorted messages, none is empty, two consecutive
\* messages of one conversation are less than 24 hours apart, and the first
\* message of a conversation is 24 hours or more after the last of the
\* conversation before.
C7_ConversationsPartition ==
  Finished =>
    /\ Concat(conversations) = sortedMessages
    /\ \A c \in 1..Len(conversations) :
         /\ Len(conversations[c]) > 0
         /\ \A i \in 2..Len(conversations[c]) :
              conversations[c][i].date - conversations[c][i - 1].date < DayMinutes
    /\ \A c \in 2..Len(conversations) :
         conversations[c][1].date
           - conversations[c - 1][Len(conversations[c - 1])].date >= DayMinutes

\* C7: two conversations exactly 24 hours apart, the first of two messages
C7_Witness ==
  /\ Finished
  /\ Len(conversations) = 2
  /\ Len(conversations[1]) = 2
  /\ conversations[2][1].date - conversations[1][2].date = DayMinutes

\* the sum of the values of the cells lo..hi
RECURSIVE CellSum(_, _, _)
CellSum(cells, lo, hi) ==
  IF lo > hi THEN 0
  ELSE IF lo = hi THEN cells[lo].value
  ELSE CellSum(cells, lo, (lo + hi) \div 2) + CellSum(cells, (lo + hi) \div 2 + 1, hi)

DayNameSet == {"Monday", "Tuesday", "Wednesday", "Thursday", "Friday", "Saturday", "Sunday"}
\* 168 cells, one for each day name and hour 0..23, each the number of the
\* messages of that day and hour
IsFullHeatmap(cells, messages) ==
  /\ Len(cells) = 168
  /\ \A k \in 1..Len(cells) :
       /\ cells[k].day \in DayNameSet
       /\ cells[k].hour \in 0..23
       /\ cells[k].value =
            Cardinality({i \in 1..Len(messages) :
                           /\ messages[i].dayName = cells[k].day
                           /\ messages[i].hour = cells[k].hour})
  /\ Cardinality({<<cells[k].day, cells[k].hour>> : k \in 1..Len(cells)}) = 168

WeekMinutes == 168 * 60

\* the gap before message i of the sorted messages
GapBefore(i) == sortedMessages[i].date - sortedMessages[i - 1].date
\* message i answers the message before it: another sender, and a gap above
\* 0 and below 168 hours
Answers(i) ==
  /\ sortedMessages[i - 1].isFromMe # sortedMessages[i].isFromMe
  /\ GapBefore(i) > 0
  /\ GapBefore(i) < WeekMinutes
\* the gaps of the answers of one sender in one month, in order
AnswerGaps(fromMe, month) ==
  LET answers == SelectSeq([i \in 1..(Len(sortedMessages) - 1) |-> i + 1],
                           LAMBDA i : /\ Answers(i)
                                      /\ sortedMessages[i].isFromMe = fromMe
                                      /\ sortedMessages[i].monthKey = month)
  IN [k \in 1..Len(answers) |-> GapBefore(answers[k])]
\* a series holds, for each month, the gaps of the answers of the sender,
\* and no month without such a gap
IsSeriesOf(series, fromMe) ==
  /\ \A i \in 1..Len(sortedMessages) :
       MapGet(series, sortedMessages[i].monthKey)
         = AnswerGaps(fromMe, sortedMessages[i].monthKey)
  /\ \A month \in DOMAIN series : AnswerGaps(fromMe, month) # <<>>

\* C9: a gap is recorded for two adjacent messages of the time-sorted list
\* exactly when their senders differ and the gap is above 0 and below 168
\* hours; it is recorded once, under the month of the later message, in the
\* series you->them when that message is from me and in the series
\* them->you when it is not; nothing else is recorded.
C9_ResponseGaps ==
  Finished =>
    /\ IsSeriesOf(monthlyYouToThemTimes, TRUE)
    /\ IsSeriesOf(monthlyThemToYouTimes, FALSE)

\* C9: an answer of mine recorded under a month that is not the month of
\* the message it answers, and a pair a week apart that is not recorded
C9_Witness ==
  /\ Finished
  /\ \E i \in 2..Len(sortedMessages) :
       /\ Answers(i) /\ sortedMessages[i].isFromMe
       /\ sortedMessages[i].monthKey # sortedMessages[i - 1].monthKey
       /\ sortedMessages[i - 1].monthKey \notin DOMAIN monthlyYouToThemTimes
       /\ sortedMessages[i].monthKey \in DOMAIN monthlyYouToThemTimes
  /\ \E i \in 2..Len(sortedMessages) :
       /\ sortedMessages[i - 1].isFromMe # sortedMessages[i].isFromMe
       /\ GapBefore(i) >= WeekMinutes

\* the r-th smallest of a list of numbers
Smallest(samples, r) ==
  CHOOSE x \in {samples[i] : i \in 1..Len(samples)} :
    /\ Cardinality({i \in 1..Len(samples) : samples[i] < x}) < r
    /\ Cardinality({i \in 1..Len(samples) : samples[i] <= x}) >= r
\* twice the median of a list of minutes: the middle one for an odd count,
\* the mean of the two middle ones for an even count
TwiceMedian(samples) ==
  IF Len(samples) % 2 = 1 THEN 2 * Smallest(samples, (Len(samples) + 1) \div 2)
  ELSE Smallest(samples, Len(samples) \div 2) + Smallest(samples, Len(samples) \div 2 + 1)
\* the value reported for a list of samples: no value for no sample, else
\* the median, in hours, which is not 0
IsMedianOf(value, samples) ==
  IF samples = <<>> THEN value.isNull
  ELSE /\ ~value.isNull
       /\ value.num * 120 = TwiceMedian(samples) * value.den
       /\ value.num # 0

\* C10: the result has one entry for each month of either series, and its
\* value for a direction is the median of the samples of the direction in
\* the month, no value (and not 0) when there is none; for A (them, t0) and
\* B (you, t0 + 2h) it is 2.0 for you->them and no value for them->you.
C10_MedianPerMonth ==
  Finished =>
    /\ {responseTimeData[k].month : k \in 1..Len(responseTimeData)}
         = DOMAIN monthlyYouToThemTimes \cup DOMAIN monthlyThemToYouTimes
    /\ \A k \in 1..Len(responseTimeData) :
         /\ IsMedianOf(responseTimeData[k].youToThem,
                       MapGet(monthlyYouToThemTimes, responseTimeData[k].month))
         /\ IsMedianOf(responseTimeData[k].themToYou,
                       MapGet(monthlyThemToYouTimes, responseTimeData[k].month))
    /\ (/\ Len(sortedMessages) = 2
        /\ ~sortedMessages[1].isFromMe /\ sortedMessages[2].isFromMe
        /\ GapBefore(2) = 120)
       => /\ Len(responseTimeData) = 1
          /\ responseTimeData[1].month = sortedMessages[2].monthKey
          /\ ~responseTimeData[1].youToThem.isNull
          /\ responseTimeData[1].youToThem.num = 2 * responseTimeData[1].youToThem.den
          /\ responseTimeData[1].themToYou.isNull

\* C10: a month with two different samples in one direction and none in
\* the other
C10_Witness ==
  /\ Finished
  /\ \E k \in 1..Len(responseTimeData) :
       LET samples == MapGet(monthlyYouToThemTimes, responseTimeData[k].month)
       IN /\ Len(samples) = 2 /\ samples[1] # samples[2]
          /\ ~responseTimeData[k].youToThem.isNull
          /\ responseTimeData[k].themToYou.isNull


\* the adjacent pairs counted for a sender among the first n messages of
\* the time-sorted list: both messages from the sender, less than 5 minutes
\* apart
RECURSIVE PairsCounted(_, _)
PairsCounted(fromMe, n) ==
  IF n < 2 THEN 0
  ELSE PairsCounted(fromMe, n - 1)
         + (IF /\ sortedMessages[n - 1].isFromMe = fromMe
               /\ sortedMessages[n].isFromMe = fromMe
               /\ GapBefore(n) < 5
            THEN 1 ELSE 0)
TalliesArePairsCounted ==
  /\ replyLadderData.doubleTextsYou = PairsCounted(TRUE, Len(sortedMessages))
  /\ replyLadderData.doubleTextsThem = PairsCounted(FALSE, Len(sortedMessages))

\* C11: the double texts of a sender are the adjacent pairs of the
\* time-sorted list with both messages from the sender and less than 5
\* minutes apart; pairs of two senders and pairs 5 minutes or more apart do
\* not count; with at least one accepted message the two tallies together
\* are at most the number of messages minus 1.
C11_DoubleTexts ==
  Finished =>
    /\ TalliesArePairsCounted
    /\ Len(processedMessages) > 0 =>
         replyLadderData.doubleTextsYou + replyLadderData.doubleTextsThem
           <= Len(processedMessages) - 1

\* C11 as stated: the two tallies together are at most the number of
\* messages minus 1, whatever the number of messages
C11_DoubleTextsBelowCount ==
  Finished =>
    /\ TalliesArePairsCounted
    /\ replyLadderData.doubleTextsYou + replyLadderData.doubleTextsThem
         <= Len(processedMessages) - 1

\* C11: a double text of each sender, two messages of mine exactly 5
\* minutes apart, and an answer less than 5 minutes after the message
C11_Witness ==
  /\ Finished
  /\ replyLadderData.doubleTextsYou = 1
  /\ replyLadderData.doubleTextsThem = 1
  /\ \E i \in 2..Len(sortedMessages) :
       /\ sortedMessages[i - 1].isFromMe /\ sortedMessages[i].isFromMe
       /\ GapBefore(i) = 5
  /\ \E i \in 2..Len(sortedMessages) :
       /\ sortedMessages[i - 1].isFromMe # sortedMessages[i].isFromMe
       /\ GapBefore(i) < 5

\* message i of the time-sorted list is the last of its conversation: no
\* message follows it within 24 hours
EndsConversation(i) ==
  \/ i = Len(sortedMessages)
  \/ sortedMessages[i + 1].date - sortedMessages[i].date >= DayMinutes
\* the conversations among the first n messages that a message of the
\* sender ends
RECURSIVE EndedBy(_, _)
EndedBy(fromMe, n) ==
  IF n = 0 THEN 0
  ELSE EndedBy(fromMe, n - 1)
         + (IF EndsConversation(n) /\ sortedMessages[n].isFromMe = fromMe THEN 1 ELSE 0)
\* each conversation adds one to the tally of the sender of its last
\* message; the two tallies together are the conversations, 0 and 0 for none
EndersAreLastSenders ==
  /\ ~replyLadderData.isNull
  /\ replyLadderData.endersYou = EndedBy(TRUE, Len(sortedMessages))
  /\ replyLadderData.endersThem = EndedBy(FALSE, Len(sortedMessages))
  /\ replyLadderData.endersYou + replyLadderData.endersThem = Len(conversations)
  /\ processedMessages = <<>> =>
       replyLadderData.endersYou = 0 /\ replyLadderData.endersThem = 0

InWindow == {i \in 1..Len(processedMessages) :
               processedMessages[i].date >= SixMonthsAgo(now)}
\* the sum of f over a set of indices
RECURSIVE SumOver(_, _)
SumOver(S, f) ==
  IF S = {} THEN 0 ELSE LET i == CHOOSE j \in S : TRUE IN f[i] + SumOver(S \ {i}, f)
wordCounts == [i \in 1..Len(processedMessages) |-> processedMessages[i].wordCount]

\* the day number of the Monday on or before a date: the epoch is a Monday
MondayOf(date) == DayNumber(date) - (DayNumber(date) % 7)
\* the messages of a pool in the week of a Monday, and those of a sender
InWeekOf(pool, monday) == {i \in pool : MondayOf(processedMessages[i].date) = monday}
InWeekFrom(pool, monday, fromMe) ==
  {i \in InWeekOf(pool, monday) : processedMessages[i].isFromMe = fromMe}
\* a bucket of the conversation ratio is the bucket of the week of a Monday
\* for a pool of messages: its label is the Monday, its shares are the words
\* of each sender over the words of the week, they add up to 1, and they
\* are 0 and 0 for a week without a word
IsRatioOf(bucket, pool, monday) ==
  LET mine == SumOver(InWeekFrom(pool, monday, TRUE), wordCounts)
      theirs == SumOver(InWeekFrom(pool, monday, FALSE), wordCounts)
  IN /\ bucket.week = ShortDate(monday * 1440)
     /\ bucket.you.den > 0 /\ bucket.them.den > 0
     /\ IF mine + theirs > 0
        THEN /\ bucket.you.num * (mine + theirs) = mine * bucket.you.den
             /\ bucket.them.num * (mine + theirs) = theirs * bucket.them.den
             /\ bucket.you.num * bucket.them.den + bucket.them.num * bucket.you.den
                  = bucket.you.den * bucket.them.den
        ELSE bucket.you.num = 0 /\ bucket.them.num = 0
\* the conversation ratio has one bucket for each week of a pool of messages
RatioCovers(pool) ==
  LET mondays == {MondayOf(processedMessages[i].date) : i \in pool}
  IN /\ Len(conversationRatioData) = Cardinality(mondays)
     /\ \A monday \in mondays :
          \E k \in 1..Len(conversationRatioData) :
            IsRatioOf(conversationRatioData[k], pool, monday)

\* C13: each accepted message is assigned to the week that starts on the
\* Monday on or before its date, a Sunday to the Monday 6 days before it;
\* the bucket of a week holds the share of each sender in the words of the
\* week, the two shares add up to 1 when the week has words, and both are 0
\* when it has none.
C13_RatioOfAllMessages ==
  Finished => RatioCovers(1..Len(processedMessages))

\* C13, for the messages of the window of 6 months before the clock only:
\* what the run computes
C13_RatioOfWindow ==
  Finished => RatioCovers(InWindow)

\* C13: a message of a Sunday in the bucket of the Monday 6 days before it,
\* the week after it with a message and without a word
C13_Witness ==
  /\ Finished
  /\ Len(conversationRatioData) = 2
  /\ \E i \in InWindow :
       /\ processedMessages[i].dayName = "Sunday"
       /\ \E k \in 1..Len(conversationRatioData) :
            /\ conversationRatioData[k].week
                 = ShortDate(processedMessages[i].date - 6 * 1440)
            /\ conversationRatioData[k].you = [num |-> 1, den |-> 1]
            /\ conversationRatioData[k].them = [num |-> 0, den |-> 1]
  /\ \E k \in 1..Len(conversationRatioData) :
       conversationRatioData[k].you.num = 0 /\ conversationRatioData[k].them.num = 0

\* C13: a message older than the window, with words, in a week that has a
\* message of the window too
C13_OlderMessageLeftOut ==
  /\ Finished
  /\ \E i \in 1..Len(processedMessages), j \in InWindow :
       /\ i \notin InWindow
       /\ MondayOf(processedMessages[i].date) = MondayOf(processedMessages[j].date)
       /\ processedMessages[i].wordCount > 0

\* the week keys of the accepted messages of the window, and the messages
\* of the window with a week key
WindowWeekKeys == {processedMessages[i].weekKey : i \in InWindow}
InWindowWithKey(key) == {i \in InWindow : processedMessages[i].weekKey = key}
\* the words of the buckets are the words of the week keys: each total
\* occurs among the buckets as often as among the week keys
BucketsSumWeekKeys ==
  /\ Len(wordsPerWeekData) = Cardinality(WindowWeekKeys)
  /\ \A total \in {wordsPerWeekData[k].words : k \in 1..Len(wordsPerWeekData)}
                    \cup {SumOver(InWindowWithKey(key), wordCounts) : key \in WindowWeekKeys} :
       Cardinality({k \in 1..Len(wordsPerWeekData) : wordsPerWeekData[k].words = total})
         = Cardinality({key \in WindowWeekKeys :
                          SumOver(InWindowWithKey(key), wordCounts) = total})

\* C14: the words-per-week result has one bucket for each week key of the
\* accepted messages dated in the window of 6 months before the clock; the
\* words of a bucket are the sum of the word counts of the messages of the
\* window with its week key; older messages add to no bucket.
C14_WordsPerWeekKey ==
  Finished => BucketsSumWeekKeys

\* C14: two buckets, one of the words of two messages, and a message older
\* than the window, with words, whose week key is the key of a bucket
C14_Witness ==
  /\ Finished
  /\ Len(wordsPerWeekData) = 2
  /\ \E key \in WindowWeekKeys :
       /\ Cardinality(InWindowWithKey(key)) = 2
       /\ \E i \in 1..Len(processedMessages) :
            /\ i \notin InWindow
            /\ processedMessages[i].weekKey = key
            /\ processedMessages[i].wordCount > 0

\* the day number of the Sunday on or before a date
SundayOf(date) == DayNumber(date) - ((DayNumber(date) + 1) % 7)
\* the earliest of the messages of the window with a week key
EarliestWithKey(key) ==
  CHOOSE i \in InWindowWithKey(key) :
    \A j \in InWindowWithKey(key) : processedMessages[i].date <= processedMessages[j].date

\* C15: every words-per-week bucket is labelled with the Monday on or
\* before the messages it aggregates, whatever the days of the week of the
\* messages.
C15_LabelIsMonday ==
  Finished =>
    \A key \in WindowWeekKeys :
      \E k \in 1..Len(wordsPerWeekData) :
        /\ wordsPerWeekData[k].words = SumOver(InWindowWithKey(key), wordCounts)
        /\ \A i \in InWindowWithKey(key) :
             wordsPerWeekData[k].week = ShortDate(MondayOf(processedMessages[i].date) * 1440)

\* C15, what the run computes: the label of a bucket is the Sunday on or
\* before the earliest of its messages
C15_LabelIsSundayOfEarliest ==
  Finished =>
    \A key \in WindowWeekKeys :
      \E k \in 1..Len(wordsPerWeekData) :
        /\ wordsPerWeekData[k].words = SumOver(InWindowWithKey(key), wordCounts)
        /\ wordsPerWeekData[k].week
             = ShortDate(SundayOf(processedMessages[EarliestWithKey(key)].date) * 1440)

\* C15: the buckets of two week keys under one label, which is a day of the
\* first week and not of the second
C15_TwoBucketsOneLabel ==
  /\ Finished
  /\ Cardinality(WindowWeekKeys) = 2
  /\ Len(wordsPerWeekData) = 2
  /\ wordsPerWeekData[1].week = wordsPerWeekData[2].week


\* the accepted messages with a week key, and those of a sender
WithKey(key) == {i \in 1..Len(processedMessages) : processedMessages[i].weekKey = key}
WithKeyFrom(key, fromMe) == {i \in WithKey(key) : processedMessages[i].isFromMe = fromMe}
sentiments == [i \in 1..Len(processedMessages) |-> processedMessages[i].sentiment]
\* a value of the trend is the mean of the sentiments (fifths) of some
\* messages: no value for no message, else their sum over their number
IsMeanOf(value, messages) ==
  IF messages = {} THEN value.isNull
  ELSE /\ ~value.isNull
       /\ value.den > 0
       /\ value.num * 5 * Cardinality(messages) = SumOver(messages, sentiments) * value.den
IsTrendOf(entry, key) ==
  /\ IsMeanOf(entry.all, WithKey(key))
  /\ IsMeanOf(entry.you, WithKeyFrom(key, TRUE))
  /\ IsMeanOf(entry.them, WithKeyFrom(key, FALSE))

\* C16: the sentiment of every message is within -1 and 1 (fifths: -5 and
\* 5); the sentiment trend has an entry for each week key of the accepted
\* messages, which reports the mean of the sentiments of all messages, of my
\* messages and of their messages of the week, and no value, not 0, for a
\* sender without a message in the week.
C16_SentimentTrend ==
  /\ \A i \in 1..Len(processedMessages) :
       processedMessages[i].sentiment >= -5 /\ processedMessages[i].sentiment <= 5
  /\ Finished =>
       /\ Len(sentimentData)
            = Cardinality({processedMessages[i].weekKey : i \in 1..Len(processedMessages)})
       /\ \A i \in 1..Len(processedMessages) :
            \E k \in 1..Len(sentimentData) :
              IsTrendOf(sentimentData[k], processedMessages[i].weekKey)

\* C16: a week in which my messages average 0 and they have none, another
\* in which I have none, and a message whose score of 9 is cut to 1
C16_Witness ==
  /\ Finished
  /\ \E k \in 1..Len(sentimentData) :
       /\ ~sentimentData[k].you.isNull /\ sentimentData[k].you.num = 0
       /\ sentimentData[k].them.isNull
  /\ \E k \in 1..Len(sentimentData) :
       /\ sentimentData[k].you.isNull
       /\ ~sentimentData[k].them.isNull /\ sentimentData[k].them.num = 5
  /\ \E i \in 1..Len(rows) : rows[i].score = 9

\* the clusters of the texts of the model, as a reader counts them: the
\* heart with its selector, the thumb with its skin tone, the family, the
\* flag and the indicator after it, the runner with her sign, the bare thumb
HeartCluster == FromCodePoints(<<10084, 65039>>)
FlagCluster == FromCodePoints(<<127482, 127480>>)
BareThumb == FromCodePoints(<<128077>>)
UnitsOf(text) ==
  IF text = E_love THEN <<HeartCluster>>
  ELSE IF text = E_thumb THEN <<E_thumb>>
  ELSE IF text = E_family THEN <<E_family>>
  ELSE IF text = E_flag THEN <<FlagCluster, FromCodePoints(<<127482>>)>>
  ELSE IF text = E_runner THEN <<E_runner>>
  ELSE IF text = E_mixed THEN <<HeartCluster, HeartCluster, BareThumb>>
  ELSE IF text = E_female THEN <<E_female>>
  ELSE IF text = E_swatch THEN <<E_swatch>>
  ELSE <<>>
\* how often a cluster is one of the units of the messages of a sender
UnitsCounted(cluster, fromMe) ==
  LET occurrences == [i \in 1..Len(processedMessages) |->
                        IF processedMessages[i].isFromMe = fromMe
                        THEN Len(SelectSeq(UnitsOf(processedMessages[i].text),
                                           LAMBDA u : u = cluster))
                        ELSE 0]
  IN SumOver(1..Len(processedMessages), occurrences)
\* the tally of a sender for a string
Tally(counts, emoji) ==
  IF IndexOfKey(counts, emoji) = 0 THEN 0 ELSE counts[IndexOfKey(counts, emoji)].count
\* the strings that could be tallied: the clusters and their parts
ClustersAndParts ==
  {HeartCluster, E_thumb, E_family, FlagCluster, E_runner, BareThumb, E_female, E_swatch}
    \cup {FromCodePoints(<<cp>>) :
            cp \in {10084, 65039, 128077, 127997, 128104, 8205, 128105, 128103,
                    127482, 127480, 127939, 9792}}
TalliesAreUnits(counts, fromMe) ==
  /\ \A k \in 1..Len(counts) : counts[k].key \in ClustersAndParts
  /\ \A emoji \in ClustersAndParts : Tally(counts, emoji) = UnitsCounted(emoji, fromMe)

GenderSigns == {FromCodePoints(<<9792>>), FromCodePoints(<<9794>>)}
\* C18: a bare gender sign is counted for neither sender, and a skin tone
\* that stands alone is counted as a unit of its own.
C18_GenderSignLeftOut ==
  Finished =>
    /\ \A sign \in GenderSigns :
         Tally(emojiCountsYou, sign) = 0 /\ Tally(emojiCountsThem, sign) = 0
    /\ \A i \in 1..Len(processedMessages) :
         processedMessages[i].text = E_swatch =>
           Tally(IF processedMessages[i].isFromMe THEN emojiCountsYou ELSE emojiCountsThem,
                 E_swatch) > 0

\* C18: a message that is the female sign alone, counted, and shown among
\* the top emojis
C18_GenderSignCounted ==
  /\ Finished
  /\ \E i \in 1..Len(processedMessages) : processedMessages[i].text = E_female
  /\ \E k \in 1..Len(wrappedStats.topEmojis) : wrappedStats.topEmojis[k].emoji = E_female

\* what the list of the longest texts holds after the walk of the first n
\* messages
RetainedAfter(n) == AllLongestTexts(SubSeq(processedMessages, 1, n))
\* some texts are the longest of the first n messages: as many as there
\* are messages, at most 10, and no message left out is longer than one kept
AreLongestOf(texts, n) ==
  /\ Len(texts) = Min(n, LongestTextsKept)
  /\ \A k \in 1..Len(texts) :
       \E i \in 1..n : texts[k] = LongText(processedMessages[i])
  /\ \A i \in 1..n, k \in 1..Len(texts) :
       Len(processedMessages[i].text) > texts[k].length =>
         \E j \in 1..Len(texts) : texts[j] = LongText(processedMessages[i])
IsDescending(texts) ==
  \A k \in 1..(Len(texts) - 1) : texts[k].length >= texts[k + 1].length

\* C19: while the messages are walked the list of the longest texts never
\* holds more than 10: after each prefix it holds the longest messages of
\* the prefix, at most 10; the final list has them from longest to shortest.
C19_BoundedLeaderboard ==
  Finished =>
    /\ \A n \in 0..Len(processedMessages) : AreLongestOf(RetainedAfter(n), n)
    /\ AreLongestOf(wrappedStats.longestTexts, Len(processedMessages))
    /\ IsDescending(wrappedStats.longestTexts)

\* C19, the list that is published: the longest messages, at most 10, from
\* longest to shortest
C19_FinalLeaderboard ==
  Finished =>
    /\ AreLongestOf(wrappedStats.longestTexts, Len(processedMessages))
    /\ IsDescending(wrappedStats.longestTexts)

\* C19: 12 messages walked, 12 texts held at the end of the walk
C19_AllRetained ==
  /\ Finished
  /\ Len(processedMessages) > LongestTextsKept
  /\ Len(allLongestTexts) = Len(processedMessages)
  /\ Len(wrappedStats.longestTexts) = LongestTextsKept

\* C20: every accepted message is counted for one of the two senders: the
\* two message totals add up to the number of accepted messages, which is
\* the sum of the heatmap, and the two word totals to the sum of the word
\* counts of the accepted messages.
C20_TotalsPartition ==
  Finished =>
    /\ ~wrappedStats.isNull
    /\ wrappedStats.totalMessagesYou
         = Cardinality({i \in 1..Len(processedMessages) : processedMessages[i].isFromMe})
    /\ wrappedStats.totalMessagesYou + wrappedStats.totalMessagesThem
         = Len(processedMessages)
    /\ Len(processedMessages) = CellSum(heatmapData, 1, Len(heatmapData))
    /\ wrappedStats.totalWordsYou + wrappedStats.totalWordsThem
         = SumOver(1..Len(processedMessages), wordCounts)

\* C20: messages and words of either sender, and a row that is dropped
C20_Witness ==
  /\ Finished
  /\ Len(processedMessages) < Len(rows)
  /\ wrappedStats.totalMessagesYou > 0 /\ wrappedStats.totalMessagesThem > 0
  /\ wrappedStats.totalWordsYou > 0 /\ wrappedStats.totalWordsThem > 0

(***************************************************************************)
(* Claims about the page: calls in flight, the filter, the error           *)
(***************************************************************************)

\* a call run to its end without anything in between
RECURSIVE Complete(_, _, _)
Complete(messages, st, filter) ==
  IF st.at = "end" THEN st
  ELSE Complete(messages,
                LoopFrom(messages, st.idx + 1,
                         AfterDecode(st, messages[st.idx],
                                     DecodeAttributedBody(messages[st.idx].attributedBody),
                                     FALSE, filter),
                         filter),
                filter)
\* the messages a call accepts of the rows of a query
Accepted(messages, filter) ==
  Complete(messages, LoopFrom(messages, 1, LoopState(1, <<>>, 0, 0, 0, "run"), filter),
           filter).processedMessages
\* the heatmap of a contact of the database, under a filter
HeatmapOf(database, contactId, filter) ==
  HeatmapData(Accepted(Query(database, contactId), filter))

\* the dashboard of a database is shown and no call is in flight
Settled == screen = "dashboard" /\ ~db.isNull /\ inflight = <<>>

\* C21: once every call has finished, the heatmap shown is the heatmap of
\* the contact that was selected last (under one of the two values of the
\* filter), never that of a contact selected before, in whichever order the
\* calls finish.  (Databases whose rows can all be read.)
C21_LatestRequestShown ==
  (Settled /\ db.unreadable = {}) =>
    \E filter \in BOOLEAN : heatmapData = HeatmapOf(db, selectedContact, filter)

\* C21: contact 2 was selected while the call for contact 1 was in flight;
\* both calls are over and the heatmap shown is that of contact 1
C21_OlderRunShown ==
  /\ Settled /\ db = FamilyDb /\ selectedContact = 2
  /\ \E filter \in BOOLEAN : heatmapData = HeatmapOf(db, 1, filter)
  /\ \A filter \in BOOLEAN : heatmapData # HeatmapOf(db, 2, filter)

\* C25: the call made by a toggle of the checkbox, when it runs alone and to
\* its end, computes the aggregates with the new value of the checkbox.
C25_ToggleAppliesNewValue ==
  [][(ToggleFilterReactions /\ Settled /\ inflight' = <<>>
        /\ selectedContact \notin db.unreadable)
       => heatmapData' = HeatmapOf(db, selectedContact, filterReactions')]_vars

\* C25: the checkbox is unchecked, no call is in flight, and the aggregates
\* shown are those of contact 2 with its reaction filtered out
C25_StaleFilterShown ==
  /\ Settled /\ db = FamilyDb /\ selectedContact = 2
  /\ ~filterReactions
  /\ reactionCount = 1
  /\ heatmapData = HeatmapOf(db, 2, TRUE)
  /\ heatmapData # HeatmapOf(db, 2, FALSE)

\* the Wrapped stats are those of the messages the heatmap counts
SameRun ==
  IF wrappedStats.isNull THEN heatmapData = <<>>
  ELSE /\ heatmapData # <<>>
       /\ wrappedStats.totalMessagesYou + wrappedStats.totalMessagesThem
            = CellSum(heatmapData, 1, Len(heatmapData))

\* C26: whenever the dashboard is shown and no call is in flight, the
\* Wrapped stats are of the run the heatmap is of, and the counters too: the
\* sample data, which counts nothing, is shown with counters of 0.
C26_OneRunShown ==
  (screen = "dashboard" /\ inflight = <<>>) =>
    /\ SameRun
    /\ isSampleData => (reactionCount = 0 /\ attributedBodyCount = 0)

\* C26: the sample data is shown with the count of the reactions filtered
\* out of the database that was loaded before it
C26_EarlierCounterShown ==
  /\ screen = "dashboard" /\ inflight = <<>> /\ isSampleData
  /\ filterReactions /\ reactionCount > 0
  /\ heatmapData = HeatmapData(SampleMessages)

\* C27: processing is true whenever a call of processAllVisualizations has
\* started and not finished.
C27_ProcessingWhileInFlight == inflight # <<>> => processing

\* C27: the dashboard is shown with its result panels while a call waits
C27_ResultsShownInFlight ==
  screen = "dashboard" /\ inflight # <<>> /\ ~processing

\* C28: when the dashboard shows the contact selected last, whose rows can
\* be read, and no call is in flight, there is no error.
C28_NoErrorBesideResults ==
  (Settled /\ selectedContact \notin db.unreadable) => error = NoError

\* C28: the call for contact 1 succeeded after a call that failed, and the
\* error of the failed call is shown beside its results
C28_ErrorOutlivesRun ==
  /\ Settled /\ db = DamagedDb /\ selectedContact = 1
  /\ heatmapData = HeatmapOf(db, 1, filterReactions)
  /\ ~wrappedStats.isNull
  /\ error = ProcessingError

\* the payload of the row has to be decoded and gives no text
FailsToDecode(row) ==
  NeedsDecode(row) /\ IsBlank(DecodeAttributedBody(row.attributedBody))
WithoutFailed(messages) == SelectSeq(messages, LAMBDA row : ~FailsToDecode(row))
\* the heatmap is that of the rows of a query without the rows that fail
IsHeatmapWithoutFailed(cells) ==
  \E database \in Databases : \E contactId \in {AllChats} \cup Contacts(database) :
    \E filter \in BOOLEAN :
      cells = HeatmapData(Accepted(WithoutFailed(Query(database, contactId)), filter))

\* C22: a step that publishes the heatmap of a database publishes that of
\* the rows of a query without the rows whose payload gives no text: the
\* call goes on after such a row.  A call whose query cannot be read sets
\* the error and publishes no aggregate.
C22_OnlySourceFailureAborts ==
  [][/\ (heatmapData' # heatmapData /\ heatmapData' # <<>> /\ ~isSampleData')
          => IsHeatmapWithoutFailed(heatmapData')
     /\ \A contactId \in db.unreadable :
          HandleContactSelect(contactId)
            => (error' = ProcessingError /\ UNCHANGED charts)
     /\ \A database \in Databases :
          (HandleFileUpload(database) /\ AllChats \in database.unreadable)
            => (error' = ProcessingError /\ UNCHANGED charts)]_vars

\* C22: the rows of contact 1 are shown: the row whose payload gives no
\* text is counted as undecoded and the row after it is in the heatmap
C22_Witness ==
  /\ Settled /\ db = DamagedDb /\ selectedContact = 1
  /\ attributedBodyCount = 1
  /\ CellSum(heatmapData, 1, Len(heatmapData)) = 1
  /\ FailsToDecode(Query(db, 1)[1])

(***************************************************************************)
(* Claims about the counters of a run                                      *)
(***************************************************************************)

\* the rows of each class
ReactionRows ==
  {i \in 1..Len(rows) : /\ filterReactions
                        /\ ~IsBlank(ResolvedText(rows[i]))
                        /\ ReactionPattern(ResolvedText(rows[i]))}
UndecodedRows ==
  {i \in 1..Len(rows) : NeedsDecode(rows[i]) /\ IsBlank(ResolvedText(rows[i]))}
SilentRows ==
  {i \in 1..Len(rows) : IsBlank(rows[i].text) /\ ~rows[i].attributedBody.present}

\* C23: after every run, also one without a dropped row, reactionCount is
\* the number of rows dropped by the reaction filter and
\* attributedBodyCount the number of rows with blank text whose payload
\* gave no text.
C23_DiagnosticsOfRun ==
  pc = "done" =>
    /\ reactionCount = Cardinality(ReactionRows)
    /\ attributedBodyCount = Cardinality(UndecodedRows)

\* C23: a run with a payload that was decoded and one that was not
C23_Witness ==
  /\ Finished
  /\ attributedBodyCount > 0
  /\ decodedCount > 0

\* C29: the rows of a finished run are the accepted messages, the reactions
\* filtered, the payloads undecoded and the rows without text and without
\* payload, each row in one class.
C29_RowsAccounted ==
  Finished =>
    /\ Len(rows) = Len(processedMessages) + reactionCount + attributedBodyCount
                     + Cardinality(SilentRows)
    /\ ReactionRows \cap UndecodedRows = {}
    /\ ReactionRows \cap SilentRows = {}
    /\ UndecodedRows \cap SilentRows = {}

\* C29: a run with a row of three of the classes
C29_Witness ==
  /\ Finished
  /\ Len(processedMessages) > 0
  /\ attributedBodyCount > 0
  /\ Cardinality(SilentRows) > 0

(***************************************************************************)
(* Claims about the order of the weekly series                             *)
(***************************************************************************)

\* the series has a bucket labelled a before a bucket labelled b
Precedes(series, a, b) ==
  \E k1, k2 \in 1..Len(series) :
    k1 < k2 /\ series[k1].week = a /\ series[k2].week = b
\* the first of the accepted messages with a week key
FirstWithKey(key) == CHOOSE i \in WithKey(key) : \A j \in WithKey(key) : i <= j
\* the labels of the weeks: the Monday of a message (conversation ratio),
\* the Sunday on or before the earliest message of a week key of the window
\* (words per week) and before the first message of a week key (sentiment)
MondayLabel(i) == ShortDate(MondayOf(processedMessages[i].date) * 1440)
WordsLabel(key) == ShortDate(SundayOf(processedMessages[EarliestWithKey(key)].date) * 1440)
SentimentLabel(key) == ShortDate(SundayOf(processedMessages[FirstWithKey(key)].date) * 1440)
AllWeekKeys == {processedMessages[i].weekKey : i \in 1..Len(processedMessages)}

RatioInOrder ==
  \A i, j \in InWindow :
    MondayOf(processedMessages[i].date) < MondayOf(processedMessages[j].date)
      => Precedes(conversationRatioData, MondayLabel(i), MondayLabel(j))
WordsInOrder ==
  \A a, b \in WindowWeekKeys :
    a < b => Precedes(wordsPerWeekData, WordsLabel(a), WordsLabel(b))
SentimentInOrder ==
  \A a, b \in AllWeekKeys :
    a < b => Precedes(sentimentData, SentimentLabel(a), SentimentLabel(b))

\* C30: in each of the three weekly series (words per week, conversation
\* ratio, sentiment trend) the bucket of an earlier week precedes the
\* bucket of a later week, also when the weeks are of two calendar years.
C30_WeeklySeriesChronological ==
  Finished => (RatioInOrder /\ WordsInOrder /\ SentimentInOrder)

\* C30: a message of December 20, 2001 and one of January 10, 2002; each
\* series starts with the bucket of the week of January
C30_JanuaryBeforeDecember ==
  /\ Finished /\ now = YearEndClock
  /\ Len(processedMessages) = 2
  /\ processedMessages[1].date = MakeDate(2001, 11, 20, 600)
  /\ processedMessages[2].date = MakeDate(2002, 0, 10, 1080)
  /\ conversationRatioData[1].week = 107 /\ conversationRatioData[2].week = 1217
  /\ wordsPerWeekData[1].week = 106 /\ wordsPerWeekData[2].week = 1216
  /\ sentimentData[1].week = 106 /\ sentimentData[2].week = 1216

\* the labels of the weeks of the run are days of one calendar year
LabelsOfOneYear ==
  \A i, j \in 1..Len(processedMessages) :
    /\ GetFullYear(SundayOf(processedMessages[i].date) * 1440)
         = GetFullYear(SundayOf(processedMessages[j].date) * 1440)
    /\ GetFullYear(MondayOf(processedMessages[i].date) * 1440)
         = GetFullYear(SundayOf(processedMessages[j].date) * 1440)
\* C30, for the runs whose week labels are days of one calendar year: what
\* the sort by the label computes
C30_ChronologicalWithinYear ==
  (Finished /\ LabelsOfOneYear) => (RatioInOrder /\ WordsInOrder /\ SentimentInOrder)

(***************************************************************************)
(* Claims about the string harvest                                         *)
(***************************************************************************)

\* the objects the harvest can get to from object 1
RECURSIVE ReachedFrom(_)
ReachedFrom(found) ==
  LET step == found \cup UNION {{ItemsOf(graph[n])[i] : i \in 1..Len(ItemsOf(graph[n]))} :
                                  n \in found}
  IN IF step = found THEN found ELSE ReachedFrom(step)
Reached == ReachedFrom({1})
\* the string leaves among them
StringLeaves == {n \in Reached : IsText(graph[n])}
\* the places that hold object n: an object and the index of an item
PlacesOf(n) ==
  {<<m, i>> \in Reached \X (1..2) :
     i <= Len(ItemsOf(graph[m])) /\ ItemsOf(graph[m])[i] = n}
\* the container is a tree: nothing holds object 1 and every other object
\* the harvest gets to is held in one place
IsTree ==
  /\ PlacesOf(1) = {}
  /\ \A n \in Reached \ {1} : Cardinality(PlacesOf(n)) = 1

\* the harvest visits no object twice, does not run out of stack, and
\* returns with the string of each string leaf, once
VisitsOnceAndYields ==
  /\ hpc # "overflow"
  /\ \A n \in 1..3 : visits[n] <= 1
  /\ hpc = "returned" =>
       /\ Len(HarvestCandidates) = Cardinality(StringLeaves)
       /\ {HarvestCandidates[k] : k \in 1..Len(HarvestCandidates)}
            = {graph[n].s : n \in StringLeaves}

\* C24: on every finite container, also one in which an object holds itself
\* or an object above it, the harvest visits each object at most once, ends
\* by returning, and yields the strings of the string leaves.
C24_HarvestVisitsOnce ==
  hpc # "idle" => VisitsOnceAndYields

\* C24: the array holds a string and itself; the harvest pushed the string
\* at each level, ran out of stack, and the strategy gets none of them
C24_SelfReferenceOverflows ==
  /\ hpc = "overflow"
  /\ graph[1] = Arr(<<2, 1>>) /\ IsText(graph[2])
  /\ visits[1] = MaxCallStack
  /\ Len(harvested) > 1
  /\ HarvestCandidates = <<>>

\* C24, for the containers that are trees: what the recursion computes
C24_TreeHarvested ==
  (hpc # "idle" /\ IsTree) => VisitsOnceAndYields

====
